---- MODULE Spec2Model ----
(***************************************************************************)
(* Model of the diabetes risk prediction API (ml-model/app.py): the        *)
(* post-processing rule engine (categorize_risk, apply_contextual_         *)
(* adjustments, the confidence calibration, generate_personalized_         *)
(* recommendations) and the /predict and /batch_predict handlers.          *)
(*                                                                         *)
(* Numbers: every score, probability and measurement is an integer number  *)
(* of hundredths (22.0 kg/m2 is 2200, a risk score of 99.5 is 9950); the   *)
(* classifier rounds its scores to two decimals.                           *)
(***************************************************************************)
EXTENDS Integers, Sequences, FiniteSets, TLC

VARIABLES
    predictor,  \* the module global `predictor`: "None", "loaded" or "unloaded"
    serving,    \* TRUE once app.run (or gunicorn) accepts requests
    call,       \* the call or request in progress and its arguments
    ret         \* what it returned (ret.done), or NoRet while it runs

vars == <<predictor, serving, call, ret>>

----------------------------------------------------------------------------
(* Python values *)

\* None in a numeric field of a payload (payload.get(...) of an unset key).
None == -1000000

\* None in a string field of the context.
NoneStr == "<None>"

\* Truthiness of a numeric value: `if bmi:` is false for None and for 0.0.
Truthy(v) == v # None /\ v # 0

\* (value or ""): None and "" both give "".
OrEmpty(s) == IF s = NoneStr THEN "" ELSE s

\* str.lower() on the strings of the model.
Lower(s) ==
    CASE s = "Moderate" -> "moderate"
      [] s = "HEAVY"    -> "heavy"
      [] s = "Never"    -> "never"
      [] s = "Light"    -> "light"
      [] s = "Type2"    -> "type2"
      [] OTHER          -> s

\* Truthiness of context["familyHistoryFlag"]: True, False or unset (None).
FlagTruthy(f) == f = "True"

----------------------------------------------------------------------------
(* clamp, categorize_risk *)

Min2(a, b) == IF a <= b THEN a ELSE b
Max2(a, b) == IF a >= b THEN a ELSE b

\* A clamp that forgets its upper bound.
clamp_no_upper(value, min_value, max_value) == Max2(min_value, value)

clamp(value, min_value, max_value) == Max2(min_value, Min2(max_value, value))

RISK_THRESHOLDS ==
    << [threshold |-> 2000,  label |-> "Low"],
       [threshold |-> 5000,  label |-> "Moderate"],
       [threshold |-> 7500,  label |-> "High"],
       [threshold |-> 10100, label |-> "Very High"] >>

RECURSIVE first_below(_, _)
first_below(score, table) ==
    IF table = << >> THEN "Very High"
    ELSE IF score < Head(table).threshold THEN Head(table).label
    ELSE first_below(score, Tail(table))

\* A table walk whose comparison is <= instead of <.
categorize_risk_inclusive(score) ==
    IF score <= 2000 THEN "Low"
    ELSE IF score <= 5000 THEN "Moderate"
    ELSE IF score <= 7500 THEN "High"
    ELSE "Very High"

categorize_risk(score) == first_below(score, RISK_THRESHOLDS)

----------------------------------------------------------------------------
(* apply_contextual_adjustments: one operator per signal block, each giving *)
(* what the block adds to `adjustments` and to `healthy_indicators`.        *)

Step(a, h) == [adj |-> a, healthy |-> h]

bmi_adjustment(bmi) ==
    IF Truthy(bmi)
    THEN IF 1850 <= bmi /\ bmi <= 2490 THEN Step(-700, 1)
         ELSE IF bmi >= 3000 THEN Step(1000, 0)
         ELSE IF bmi >= 2500 THEN Step(500, 0)
         ELSE Step(0, 0)
    ELSE Step(0, 0)

\* The mild band starting above 110 instead of at 110.
glucose_adjustment_strict(glucose) ==
    IF Truthy(glucose)
    THEN IF 7000 <= glucose /\ glucose <= 9900 THEN Step(-600, 1)
         ELSE IF glucose >= 12600 THEN Step(1000, 0)
         ELSE IF glucose > 11000 THEN Step(500, 0)
         ELSE Step(0, 0)
    ELSE Step(0, 0)

glucose_adjustment(glucose) ==
    IF Truthy(glucose)
    THEN IF 7000 <= glucose /\ glucose <= 9900 THEN Step(-600, 1)
         ELSE IF glucose >= 12600 THEN Step(1000, 0)
         ELSE IF glucose >= 11000 THEN Step(500, 0)
         ELSE Step(0, 0)
    ELSE Step(0, 0)

\* The HbA1c block without its presence test.
hba1c_adjustment_unguarded(hba1c) ==
    IF hba1c < 570 THEN Step(-400, 1)
    ELSE IF hba1c >= 650 THEN Step(1000, 0)
    ELSE Step(0, 0)

hba1c_adjustment(hba1c) ==
    IF Truthy(hba1c)
    THEN IF hba1c < 570 THEN Step(-400, 1)
         ELSE IF hba1c >= 650 THEN Step(1000, 0)
         ELSE Step(0, 0)
    ELSE Step(0, 0)

bp_adjustment(systolic, diastolic) ==
    IF Truthy(systolic) /\ Truthy(diastolic)
    THEN IF systolic < 12000 /\ diastolic < 8000 THEN Step(-300, 1)
         ELSE IF systolic >= 14000 \/ diastolic >= 9000 THEN Step(600, 0)
         ELSE Step(0, 0)
    ELSE Step(0, 0)

exercise_adjustment(raw) ==
    LET exercise == Lower(OrEmpty(raw))
    IN  IF exercise \in {"moderate", "heavy"} THEN Step(-400, 1)
        ELSE IF exercise \in {"none", "light"} THEN Step(200, 0)
        ELSE Step(0, 0)

\* The smoking block forgetting to count the healthy indicator.
smoking_adjustment_uncounted(raw) ==
    LET smoking == Lower(OrEmpty(raw))
    IN  IF smoking = "never" THEN Step(-200, 0)
        ELSE IF smoking = "current" THEN Step(500, 0)
        ELSE Step(0, 0)

smoking_adjustment(raw) ==
    LET smoking == Lower(OrEmpty(raw))
    IN  IF smoking = "never" THEN Step(-200, 1)
        ELSE IF smoking = "current" THEN Step(500, 0)
        ELSE Step(0, 0)

alcohol_adjustment(raw) ==
    LET alcohol == Lower(OrEmpty(raw))
    IN  IF alcohol \in {"none", "light"} THEN Step(-100, 0)
        ELSE IF alcohol = "heavy" THEN Step(300, 0)
        ELSE Step(0, 0)

family_adjustment(flag) ==
    IF ~FlagTruthy(flag) THEN Step(-200, 1) ELSE Step(0, 0)

\* The blocks in the order the function runs them.
adjustment_steps(payload, context) ==
    << bmi_adjustment(payload.bmi),
       glucose_adjustment(payload.glucose),
       hba1c_adjustment(payload.hba1c),
       bp_adjustment(payload.systolicBP, payload.diastolicBP),
       exercise_adjustment(context.exerciseFrequency),
       smoking_adjustment(context.smokingStatus),
       alcohol_adjustment(context.alcoholConsumption),
       family_adjustment(context.familyHistoryFlag) >>

RECURSIVE run_steps(_, _)
run_steps(steps, acc) ==
    IF steps = << >> THEN acc
    ELSE run_steps(Tail(steps),
                   Step(acc.adj + Head(steps).adj, acc.healthy + Head(steps).healthy))

\* The function's locals at its return statement, and the pair it returns.
apply_contextual_adjustments(base_score, payload, context) ==
    LET locals == run_steps(adjustment_steps(payload, context), Step(0, 0))
    IN  [adjustments        |-> locals.adj,
         adjusted_score     |-> clamp(base_score + locals.adj, 0, 10000),
         healthy_indicators |-> locals.healthy]

----------------------------------------------------------------------------
(* generate_personalized_recommendations.  A message is named by the line  *)
(* that builds it; its text (with the formatted reading) plays no role in   *)
(* the order or the number of entries.  `st` holds the function's three     *)
(* lists: recommendations, critical_issues, positive_factors.               *)

Recommend(st, msg) == [st EXCEPT !.recommendations = Append(@, msg)]
Critical(st, msg)  == [st EXCEPT !.critical_issues = Append(@, msg)]
Positive(st, msg)  == [st EXCEPT !.positive_factors = Append(@, msg)]

\* seq[:n]
Take(seq, n) == SubSeq(seq, 1, Min2(n, Len(seq)))

\* list.insert(0, x)
InsertFront(seq, x) == <<x>> \o seq

Diagnosed == {"type1", "type2", "gestational", "other"}

has_diabetes(context) == Lower(OrEmpty(context.diabetesStatus)) \in Diagnosed

\* A BMI rule with the bands of the adjustment table: healthy up to 24.9,
\* above from 25 on, nothing in between.
check_bmi_banded(st, bmi) ==
    IF ~Truthy(bmi) THEN st
    ELSE IF bmi < 1850 THEN Critical(st, "bmi_below")
    ELSE IF bmi > 3000 THEN Critical(st, "bmi_obese")
    ELSE IF bmi >= 2500 THEN Recommend(st, "bmi_above")
    ELSE IF bmi <= 2490 THEN Positive(st, "bmi_healthy")
    ELSE st

check_bmi(st, bmi) ==
    IF ~Truthy(bmi) THEN st
    ELSE IF bmi < 1850 THEN Critical(st, "bmi_below")
    ELSE IF bmi > 3000 THEN Critical(st, "bmi_obese")
    ELSE IF bmi > 2490 THEN Recommend(st, "bmi_above")
    ELSE Positive(st, "bmi_healthy")

check_glucose(st, glucose, diabetic) ==
    IF ~Truthy(glucose) THEN st
    ELSE IF diabetic
    THEN IF glucose >= 18000 THEN Critical(st, "glucose_very_high")
         ELSE IF glucose >= 14000 THEN Critical(st, "glucose_elevated")
         ELSE IF glucose < 7000 THEN Critical(st, "glucose_hypo")
         ELSE IF 7000 <= glucose /\ glucose <= 13000 THEN Positive(st, "glucose_target")
         ELSE Recommend(st, "glucose_above_target")
    ELSE IF glucose >= 12600 THEN Critical(st, "glucose_diabetes_range")
         ELSE IF glucose >= 10000 THEN Critical(st, "glucose_prediabetes")
         ELSE IF glucose < 7000 THEN Recommend(st, "glucose_low")
         ELSE Positive(st, "glucose_excellent")

check_hba1c(st, hba1c, diabetic) ==
    IF ~Truthy(hba1c) THEN st
    ELSE IF diabetic
    THEN IF hba1c >= 900 THEN Critical(st, "hba1c_very_high")
         ELSE IF hba1c >= 800 THEN Critical(st, "hba1c_above_target")
         ELSE IF hba1c >= 700 THEN Recommend(st, "hba1c_slightly_above")
         ELSE Positive(st, "hba1c_at_target")
    ELSE IF hba1c >= 650 THEN Critical(st, "hba1c_diabetes")
         ELSE IF hba1c >= 570 THEN Critical(st, "hba1c_prediabetes")
         ELSE Positive(st, "hba1c_good")

check_blood_pressure(st, systolic, diastolic) ==
    IF ~(Truthy(systolic) /\ Truthy(diastolic)) THEN st
    ELSE IF systolic >= 14000 \/ diastolic >= 9000 THEN Critical(st, "bp_hypertension")
    ELSE IF systolic >= 13000 \/ diastolic >= 8000 THEN Recommend(st, "bp_elevated")
    ELSE Positive(st, "bp_optimal")

check_insulin(st, insulin) ==
    IF ~Truthy(insulin) THEN st
    ELSE IF insulin > 2500 THEN Recommend(st, "insulin_elevated")
    ELSE IF insulin < 200 THEN Recommend(st, "insulin_low")
    ELSE Positive(st, "insulin_normal")

\* Critical issues appended without the cap of three.
add_critical_issues_uncapped(st) ==
    [st EXCEPT !.recommendations = @ \o st.critical_issues]

\* Critical issues appended with a cap of two.
add_critical_issues_two(st) ==
    [st EXCEPT !.recommendations = @ \o Take(st.critical_issues, 2)]

\* for _, msg in critical_issues[:3]: recommendations.append(msg)
add_critical_issues(st) ==
    [st EXCEPT !.recommendations = @ \o Take(st.critical_issues, 3)]

lifestyle_exercise(st, raw, risk_score) ==
    LET exercise == Lower(OrEmpty(raw))
    IN  IF exercise \in {"none", "light"} THEN Recommend(st, "exercise_increase")
        ELSE IF exercise \in {"moderate", "active", "very_active", "athlete"}
        THEN IF risk_score < 3000 THEN Positive(st, "exercise_keep_up")
             ELSE Recommend(st, "exercise_continue")
        ELSE st

lifestyle_smoking(st, raw, risk_score) ==
    LET smoking == Lower(OrEmpty(raw))
    IN  IF smoking \in {"current", "heavy"} THEN Recommend(st, "smoking_quit")
        ELSE IF smoking = "former" THEN Recommend(st, "smoking_former")
        ELSE IF smoking = "never" /\ risk_score < 3000 THEN Positive(st, "smoking_free")
        ELSE st

lifestyle_alcohol(st, raw, risk_score) ==
    LET alcohol == Lower(OrEmpty(raw))
    IN  IF alcohol = "heavy" THEN Recommend(st, "alcohol_reduce")
        ELSE IF alcohol \in {"none", "light", "occasional"} /\ risk_score < 3000
        THEN Positive(st, "alcohol_ok")
        ELSE st

\* A family-history step that says nothing when there is no family history.
family_history_silent(st, flag, risk_score) ==
    IF FlagTruthy(flag) THEN Recommend(st, "family_screening") ELSE st

family_history(st, flag, risk_score) ==
    IF FlagTruthy(flag) THEN Recommend(st, "family_screening")
    ELSE IF risk_score < 3000 THEN Positive(st, "family_none")
    ELSE st

age_based(st, age) ==
    IF age >= 4500 THEN Recommend(st, "age_45")
    ELSE IF age >= 3500 THEN Recommend(st, "age_35")
    ELSE st

RECURSIVE append_while_room(_, _)
append_while_room(recs, msgs) ==
    IF msgs = << >> THEN recs
    ELSE append_while_room(IF Len(recs) < 8 THEN Append(recs, Head(msgs)) ELSE recs,
                           Tail(msgs))

\* for _, msg in positive_factors[:2]: if len(recommendations) < 8: append
add_positive_factors(st) ==
    [st EXCEPT !.recommendations = append_while_room(@, Take(st.positive_factors, 2))]

\* Management bands whose lowest edge is the 30 of the positive factors.
management_band_30(risk_score) ==
    IF risk_score >= 7500 THEN "mgmt_very_high"
    ELSE IF risk_score >= 5000 THEN "mgmt_elevated"
    ELSE IF risk_score >= 3000 THEN "mgmt_moderate"
    ELSE "mgmt_good_control"

management_band(risk_score) ==
    IF risk_score >= 7500 THEN "mgmt_very_high"
    ELSE IF risk_score >= 5000 THEN "mgmt_elevated"
    ELSE IF risk_score >= 2500 THEN "mgmt_moderate"
    ELSE "mgmt_good_control"

\* The summary line appended at the end instead of inserted at the front.
risk_band_appended(st, diabetic, risk_score, hba1c) ==
    IF diabetic
    THEN [st EXCEPT !.recommendations =
             (@ \o <<management_band(risk_score)>>)
             \o (IF Truthy(hba1c) /\ hba1c >= 700 THEN <<"hba1c_target_reminder">> ELSE << >>)
             \o <<"reminder_glucose_log", "reminder_medication", "reminder_checkups">>]
    ELSE IF risk_score >= 7500 THEN Recommend(st, "risk_very_high")
    ELSE IF risk_score >= 5000 THEN Recommend(st, "risk_elevated")
    ELSE IF risk_score >= 2500 THEN Recommend(st, "risk_moderate")
    ELSE st

\* The risk-band summary (insert at 0) and, for a diagnosed patient, the
\* management reminders appended after it.
risk_band(st, diabetic, risk_score, hba1c) ==
    IF diabetic
    THEN [st EXCEPT !.recommendations =
             InsertFront(@, management_band(risk_score))
             \o (IF Truthy(hba1c) /\ hba1c >= 700 THEN <<"hba1c_target_reminder">> ELSE << >>)
             \o <<"reminder_glucose_log", "reminder_medication", "reminder_checkups">>]
    ELSE IF risk_score >= 7500
         THEN [st EXCEPT !.recommendations = InsertFront(@, "risk_very_high")]
    ELSE IF risk_score >= 5000
         THEN [st EXCEPT !.recommendations = InsertFront(@, "risk_elevated")]
    ELSE IF risk_score >= 2500
         THEN [st EXCEPT !.recommendations = InsertFront(@, "risk_moderate")]
    ELSE st

\* The function's three lists just before its return statement.
recommendation_lists(payload, context) ==
    LET risk_score == payload.riskScore
        diabetic == has_diabetes(context)
        s0 == [recommendations |-> << >>, critical_issues |-> << >>,
               positive_factors |-> << >>]
        s1 == check_bmi(s0, payload.bmi)
        s2 == check_glucose(s1, payload.glucose, diabetic)
        s3 == check_hba1c(s2, payload.hba1c, diabetic)
        s4 == check_blood_pressure(s3, payload.systolicBP, payload.diastolicBP)
        s5 == check_insulin(s4, payload.insulin)
        s6 == add_critical_issues(s5)
        s7 == lifestyle_exercise(s6, context.exerciseFrequency, risk_score)
        s8 == lifestyle_smoking(s7, context.smokingStatus, risk_score)
        s9 == lifestyle_alcohol(s8, context.alcoholConsumption, risk_score)
        s10 == family_history(s9, context.familyHistoryFlag, risk_score)
        s11 == age_based(s10, payload.age)
        s12 == add_positive_factors(s11)
    IN  risk_band(s12, diabetic, risk_score, payload.hba1c)

\* The list returned without the cut to eight entries.
generate_personalized_recommendations_uncut(payload, context) ==
    recommendation_lists(payload, context).recommendations

\* return recommendations[:8]
generate_personalized_recommendations(payload, context) ==
    Take(recommendation_lists(payload, context).recommendations, 8)

----------------------------------------------------------------------------
(* Inputs.  A sweep set holds, for one signal, every reading within Margin  *)
(* hundredths of each threshold the code compares it with, next to None,    *)
(* zero and a negative reading; a coarse set holds one reading per band.    *)
(* The engine is called on the full product of the coarse sets and on each  *)
(* baseline with one signal swept.                                          *)

Margin == 1

MaxReading == 40000

Around(t) == (t - Margin) .. (t + Margin)

BmiSweep ==
    {None, 0, -100, MaxReading}
        \cup Around(1850) \cup Around(2490) \cup Around(2500) \cup Around(3000)

GlucoseSweep ==
    {None, 0, -100, MaxReading}
        \cup Around(7000) \cup Around(9900) \cup Around(10000) \cup Around(11000)
        \cup Around(12600) \cup Around(13000) \cup Around(14000) \cup Around(18000)

Hba1cSweep ==
    {None, 0, -100, MaxReading}
        \cup Around(570) \cup Around(650) \cup Around(700) \cup Around(800)
        \cup Around(900)

SystolicSweep ==
    {None, 0, MaxReading} \cup Around(12000) \cup Around(13000) \cup Around(14000)

DiastolicSweep ==
    {None, 0, MaxReading} \cup Around(8000) \cup Around(9000)

InsulinSweep == {None, 0, MaxReading} \cup Around(200) \cup Around(2500)

AgeSweep == {0, MaxReading} \cup Around(3500) \cup Around(4500)

ExerciseValues ==
    {NoneStr, "", "none", "light", "moderate", "heavy", "active", "very_active",
     "athlete", "Moderate", "HEAVY", "Light"}

SmokingValues == {NoneStr, "", "never", "former", "current", "heavy", "Never"}

AlcoholValues == {NoneStr, "", "none", "light", "occasional", "heavy", "Light"}

FlagValues == {NoneStr, "False", "True"}

StatusValues ==
    {NoneStr, "", "none", "prediabetic", "type1", "type2", "gestational", "other",
     "Type2"}

BaseScores == {0, 500, 2000, 2500, 6000, 9500, 10000}

Payload(bmi, glucose, hba1c, systolic, diastolic, insulin, age) ==
    [bmi |-> bmi, glucose |-> glucose, hba1c |-> hba1c, systolicBP |-> systolic,
     diastolicBP |-> diastolic, insulin |-> insulin, age |-> age]

Context(exercise, smoking, alcohol, flag, status) ==
    [exerciseFrequency |-> exercise, smokingStatus |-> smoking,
     alcoholConsumption |-> alcohol, familyHistoryFlag |-> flag,
     diabetesStatus |-> status]

\* Every measurement and every context field absent.
AbsentPayload == Payload(None, None, None, None, None, None, 0)
AbsentContext == Context(NoneStr, NoneStr, NoneStr, NoneStr, NoneStr)

\* The healthy profile and the high-risk profile of the end-to-end scenarios.
HealthyPayload == Payload(2200, 8500, 520, 11000, 7000, None, 0)
HealthyContext == Context("moderate", "never", "light", "False", "none")
HighRiskPayload == Payload(3300, 15000, 700, 14500, 9200, None, 0)
HighRiskContext == Context("none", "current", "heavy", "True", "none")

Baselines ==
    { [payload |-> AbsentPayload, context |-> AbsentContext],
      [payload |-> HealthyPayload, context |-> HealthyContext],
      [payload |-> HighRiskPayload, context |-> HighRiskContext] }

\* Each baseline with one signal of the adjustment engine swept.
AdjustSweeps ==
    UNION { {[b EXCEPT !.payload.bmi = v] : v \in BmiSweep}
            \cup {[b EXCEPT !.payload.glucose = v] : v \in GlucoseSweep}
            \cup {[b EXCEPT !.payload.hba1c = v] : v \in Hba1cSweep}
            \cup {[b EXCEPT !.payload.systolicBP = v[1], !.payload.diastolicBP = v[2]] :
                     v \in SystolicSweep \X DiastolicSweep}
            \cup {[b EXCEPT !.context.exerciseFrequency = v] : v \in ExerciseValues}
            \cup {[b EXCEPT !.context.smokingStatus = v] : v \in SmokingValues}
            \cup {[b EXCEPT !.context.alcoholConsumption = v] : v \in AlcoholValues}
            \cup {[b EXCEPT !.context.familyHistoryFlag = v] : v \in FlagValues}
          : b \in Baselines }

AdjustCall(base_score, payload, context) ==
    [fn |-> "apply_contextual_adjustments", base_score |-> base_score,
     payload |-> payload, context |-> context]

NoRet == [done |-> FALSE]

\* A rule-engine function called on its own: no server runs.
NoServer == predictor = "None" /\ serving = FALSE

\* The calls: one reading per band of every signal, in every combination;
\* and each baseline with one signal swept.
InitAdjust ==
    /\ NoServer
    /\ ret = NoRet
    /\ \/ \E bmi \in {None, 2200, 3300}, glucose \in {0, 8500, 15000},
             hba1c \in {None, 520, 700},
             bp \in {<<None, None>>, <<11000, 7000>>, <<14500, 9200>>},
             exercise \in {NoneStr, "moderate", "none"},
             smoking \in {"", "never", "current"},
             alcohol \in {NoneStr, "light", "heavy"}, flag \in FlagValues,
             base \in BaseScores :
             call = AdjustCall(base,
                               Payload(bmi, glucose, hba1c, bp[1], bp[2], None, 0),
                               Context(exercise, smoking, alcohol, flag, "none"))
       \/ \E i \in AdjustSweeps, base \in BaseScores :
             call = AdjustCall(base, i.payload, i.context)

CallAdjust ==
    /\ call.fn = "apply_contextual_adjustments"
    /\ ~ret.done
    /\ LET r == apply_contextual_adjustments(call.base_score, call.payload, call.context)
       IN  ret' = [done |-> TRUE, adjustments |-> r.adjustments,
                   adjusted_score |-> r.adjusted_score,
                   healthy_indicators |-> r.healthy_indicators]
    /\ UNCHANGED <<call, predictor, serving>>

NextAdjust == CallAdjust

SpecAdjust == InitAdjust /\ [][NextAdjust]_vars

----------------------------------------------------------------------------
(* The adjustment table as the specification states it, band by band.       *)

Absent(v) == v = None \/ v = 0

Normal(s) == Lower(IF s = NoneStr THEN "" ELSE s)

TableBmi(v) ==
    CASE ~Absent(v) /\ 1850 <= v /\ v <= 2490 -> -700
      [] ~Absent(v) /\ 2500 <= v /\ v < 3000  -> 500
      [] ~Absent(v) /\ v >= 3000              -> 1000
      [] OTHER                                -> 0

TableGlucose(v) ==
    CASE ~Absent(v) /\ 7000 <= v /\ v <= 9900   -> -600
      [] ~Absent(v) /\ 11000 <= v /\ v < 12600  -> 500
      [] ~Absent(v) /\ v >= 12600               -> 1000
      [] OTHER                                  -> 0

TableHba1c(v) ==
    CASE ~Absent(v) /\ v < 570  -> -400
      [] ~Absent(v) /\ v >= 650 -> 1000
      [] OTHER                  -> 0

TableBp(sys, dia) ==
    CASE ~Absent(sys) /\ ~Absent(dia) /\ sys < 12000 /\ dia < 8000       -> -300
      [] ~Absent(sys) /\ ~Absent(dia) /\ (sys >= 14000 \/ dia >= 9000)   -> 600
      [] OTHER                                                           -> 0

TableExercise(s) ==
    CASE Normal(s) \in {"moderate", "heavy"} -> -400
      [] Normal(s) \in {"none", "light"}     -> 200
      [] OTHER                               -> 0

TableSmoking(s) ==
    CASE Normal(s) = "never"   -> -200
      [] Normal(s) = "current" -> 500
      [] OTHER                 -> 0

TableAlcohol(s) ==
    CASE Normal(s) \in {"none", "light"} -> -100
      [] Normal(s) = "heavy"             -> 300
      [] OTHER                           -> 0

TableFamily(f) == IF f = "True" THEN 0 ELSE -200

TableDelta(c) ==
    TableBmi(c.payload.bmi) + TableGlucose(c.payload.glucose)
        + TableHba1c(c.payload.hba1c)
        + TableBp(c.payload.systolicBP, c.payload.diastolicBP)
        + TableExercise(c.context.exerciseFrequency)
        + TableSmoking(c.context.smokingStatus)
        + TableAlcohol(c.context.alcoholConsumption)
        + TableFamily(c.context.familyHistoryFlag)

\* The signals whose healthy band fires (alcohol has no healthy count).
HealthySignals(c) ==
    {s \in {"bmi", "glucose", "hba1c", "bp", "exercise", "smoking", "family"} :
        CASE s = "bmi"      -> TableBmi(c.payload.bmi) = -700
          [] s = "glucose"  -> TableGlucose(c.payload.glucose) = -600
          [] s = "hba1c"    -> TableHba1c(c.payload.hba1c) = -400
          [] s = "bp"       -> TableBp(c.payload.systolicBP, c.payload.diastolicBP) = -300
          [] s = "exercise" -> TableExercise(c.context.exerciseFrequency) = -400
          [] s = "smoking"  -> TableSmoking(c.context.smokingStatus) = -200
          [] s = "family"   -> c.context.familyHistoryFlag # "True"}

AdjustDone == call.fn = "apply_contextual_adjustments" /\ ret.done

\* Every measurement and lifestyle signal of the call absent; the family
\* history flag is looked at separately.
AllSignalsAbsent(c) ==
    /\ Absent(c.payload.bmi) /\ Absent(c.payload.glucose) /\ Absent(c.payload.hba1c)
    /\ (Absent(c.payload.systolicBP) \/ Absent(c.payload.diastolicBP))
    /\ Normal(c.context.exerciseFrequency) = ""
    /\ Normal(c.context.smokingStatus) = ""
    /\ Normal(c.context.alcoholConsumption) = ""

----------------------------------------------------------------------------
(* Claims about apply_contextual_adjustments (specification SpecAdjust).    *)

\* C1: the adjusted score lies in [0,100] and is the clamp of base score
\* plus the function's total delta: 100 when the sum exceeds 100, 0 when it
\* is negative, the sum itself otherwise; base 95 with every high-risk band
\* gives 100 and base 5 with every healthy band gives 0.
C1_AdjustedScoreClamped ==
    AdjustDone =>
        LET sum == call.base_score + ret.adjustments
        IN  /\ 0 <= ret.adjusted_score /\ ret.adjusted_score <= 10000
            /\ sum > 10000 => ret.adjusted_score = 10000
            /\ sum < 0 => ret.adjusted_score = 0
            /\ (0 <= sum /\ sum <= 10000) => ret.adjusted_score = sum
            /\ (call.base_score = 9500 /\ call.payload = HighRiskPayload
                    /\ call.context = HighRiskContext) => ret.adjusted_score = 10000
            /\ (call.base_score = 500 /\ call.payload = HealthyPayload
                    /\ call.context = HealthyContext) => ret.adjusted_score = 0

\* C1 witness: base 95 with every high-risk band firing (delta +46) is cut to 100.
C1_Witness ==
    /\ AdjustDone
    /\ call.base_score = 9500
    /\ call.payload = HighRiskPayload /\ call.context = HighRiskContext
    /\ ret.adjustments = 4600
    /\ ret.adjusted_score = 10000

\* C7 as stated: the healthy-indicator count never exceeds 6.
C7_AtMostSix == AdjustDone => ret.healthy_indicators <= 6

\* C7 amended: the healthy-indicator count is the number of signals whose
\* healthy band fired (BMI, glucose, HbA1c, blood pressure, exercise, smoking,
\* no family history), one increment each, and never exceeds 7.
C7_HealthyCount ==
    AdjustDone =>
        /\ ret.healthy_indicators = Cardinality(HealthySignals(call))
        /\ ret.healthy_indicators <= 7

\* C7 witness: the healthy profile fires all seven healthy bands.
C7_Witness ==
    /\ AdjustDone
    /\ call.payload = HealthyPayload /\ call.context = HealthyContext
    /\ ret.healthy_indicators = 7

\* C8 as stated: with every measurement and every context field absent, an
\* unset familyHistoryFlag included, the adjusted score is clamp(base, 0, 100)
\* and the healthy-indicator count is 0.
C8_AllAbsentNoEffect ==
    (AdjustDone /\ AllSignalsAbsent(call) /\ call.context.familyHistoryFlag = NoneStr) =>
        /\ ret.adjusted_score = Max2(0, Min2(10000, call.base_score))
        /\ ret.healthy_indicators = 0

\* C8 amended: an absent measurement or lifestyle signal contributes no delta
\* and no healthy increment, while an unset or false familyHistoryFlag counts
\* as no family history (-2 and one healthy indicator): with every other
\* signal absent the result is clamp(base - 2, 0, 100) with count 1 when the
\* flag is unset or false, and clamp(base, 0, 100) with count 0 when it is true.
C8_AbsentSignals ==
    (AdjustDone /\ AllSignalsAbsent(call)) =>
        IF call.context.familyHistoryFlag = "True"
        THEN /\ ret.adjustments = 0
             /\ ret.adjusted_score = Max2(0, Min2(10000, call.base_score))
             /\ ret.healthy_indicators = 0
        ELSE /\ ret.adjustments = -200
             /\ ret.adjusted_score = Max2(0, Min2(10000, call.base_score - 200))
             /\ ret.healthy_indicators = 1

\* C8 witness: everything absent, the flag unset, base 60: the score is 58.
C8_Witness ==
    /\ AdjustDone
    /\ call.payload = AbsentPayload /\ call.context = AbsentContext
    /\ call.base_score = 6000
    /\ ret.adjusted_score = 5800
    /\ ret.healthy_indicators = 1

\* C9: the total delta is the sum over the signals of the delta of the one
\* band of the specification's table the signal falls in (the mild BMI band
\* read as [25,30), the mild glucose band as [110,126)), zero for a signal in
\* no band.
C9_DeltaIsTableSum == AdjustDone => ret.adjustments = TableDelta(call)

\* C9 witness: glucose 110 (the first reading of the mild band) on the
\* otherwise healthy profile: -29 + 6 + 5.
C9_Witness ==
    /\ AdjustDone
    /\ call.payload = [HealthyPayload EXCEPT !.glucose = 11000]
    /\ call.context = HealthyContext
    /\ ret.adjustments = -1800

----------------------------------------------------------------------------
(* categorize_risk, called on two scores (specification SpecCategorize).    *)

ScoreSweep ==
    {-500, -1, 0, 10000, 10050, MaxReading}
        \cup Around(2000) \cup Around(5000) \cup Around(7500) \cup Around(10100)
        \cup {500 * k : k \in 0 .. 20}

InitCategorize ==
    /\ NoServer
    /\ ret = NoRet
    /\ \E s1 \in ScoreSweep, s2 \in ScoreSweep :
          call = [fn |-> "categorize_risk", score |-> s1, score2 |-> s2]

CallCategorize ==
    /\ call.fn = "categorize_risk"
    /\ ~ret.done
    /\ ret' = [done |-> TRUE, label |-> categorize_risk(call.score),
               label2 |-> categorize_risk(call.score2)]
    /\ UNCHANGED <<call, predictor, serving>>

NextCategorize == CallCategorize

SpecCategorize == InitCategorize /\ [][NextCategorize]_vars

Severity(label) ==
    CASE label = "Low" -> 1 [] label = "Moderate" -> 2 [] label = "High" -> 3
      [] label = "Very High" -> 4 [] OTHER -> 0

CategorizeDone == call.fn = "categorize_risk" /\ ret.done

\* C3: categorize_risk is total and non-decreasing in severity; below 20 is
\* Low, [20,50) Moderate, [50,75) High, 75 and above (values over 100 too)
\* Very High, so 20, 50 and 75 belong to the higher category.
C3_CategorizeTable ==
    CategorizeDone =>
        /\ ret.label \in {"Low", "Moderate", "High", "Very High"}
        /\ (ret.label = "Low") = (call.score < 2000)
        /\ (ret.label = "Moderate") = (2000 <= call.score /\ call.score < 5000)
        /\ (ret.label = "High") = (5000 <= call.score /\ call.score < 7500)
        /\ (ret.label = "Very High") = (call.score >= 7500)
        /\ call.score <= call.score2 => Severity(ret.label) <= Severity(ret.label2)

\* C3 witness: 20 is Moderate, and a score beyond the last table row (101 and
\* more) still is Very High.
C3_Witness ==
    /\ CategorizeDone
    /\ call.score = 2000 /\ ret.label = "Moderate"
    /\ call.score2 > 10100 /\ ret.label2 = "Very High"

----------------------------------------------------------------------------
(* generate_personalized_recommendations (specification SpecRecommend).     *)

RiskSweep ==
    {0, 10000} \cup Around(2500) \cup Around(3000) \cup Around(5000) \cup Around(7500)

WithRisk(payload, risk_score) ==
    [bmi |-> payload.bmi, glucose |-> payload.glucose, hba1c |-> payload.hba1c,
     systolicBP |-> payload.systolicBP, diastolicBP |-> payload.diastolicBP,
     insulin |-> payload.insulin, age |-> payload.age, riskScore |-> risk_score]

\* Each baseline with one input of the synthesizer swept.
RecommendSweeps ==
    UNION { {[b EXCEPT !.payload.bmi = v] : v \in BmiSweep}
            \cup {[b EXCEPT !.payload.glucose = v] : v \in GlucoseSweep}
            \cup {[b EXCEPT !.payload.hba1c = v] : v \in Hba1cSweep}
            \cup {[b EXCEPT !.payload.systolicBP = v[1], !.payload.diastolicBP = v[2]] :
                     v \in SystolicSweep \X DiastolicSweep}
            \cup {[b EXCEPT !.payload.insulin = v] : v \in InsulinSweep}
            \cup {[b EXCEPT !.payload.age = v] : v \in AgeSweep}
            \cup {[b EXCEPT !.context.exerciseFrequency = v] : v \in ExerciseValues}
            \cup {[b EXCEPT !.context.smokingStatus = v] : v \in SmokingValues}
            \cup {[b EXCEPT !.context.alcoholConsumption = v] : v \in AlcoholValues}
            \cup {[b EXCEPT !.context.familyHistoryFlag = v] : v \in FlagValues}
          : b \in Baselines }

\* The synthesizer's call on a payload, a context, a risk score and a status.
RecommendCall(payload, context, risk_score, status) ==
    [fn |-> "generate_personalized_recommendations",
     payload |-> WithRisk(payload, risk_score),
     context |-> [context EXCEPT !.diabetesStatus = status]]

\* The calls: one reading per bucket (critical, general, positive, absent) of
\* every metric and one value per branch of every lifestyle rule, in both
\* modes; and each baseline with one input swept, at every risk band edge.
InitRecommend ==
    /\ NoServer
    /\ ret = NoRet
    /\ \/ \E bmi \in {None, 1700, 2200, 2700, 3300},
             glucose \in {0, 6000, 9000, 13500, 15000},
             hba1c \in {None, 520, 750, 850},
             bp \in {<<None, None>>, <<11000, 7000>>, <<13500, 8500>>, <<14500, 9200>>},
             insulin \in {None, 3000}, age \in {0, 5000},
             exercise \in {NoneStr, "moderate", "none"},
             smoking \in {"", "never", "current"},
             alcohol \in {NoneStr, "light", "heavy"}, flag \in {"False", "True"},
             risk \in {1000, 2700, 8000}, status \in {"none", "type2"} :
             call = RecommendCall(Payload(bmi, glucose, hba1c, bp[1], bp[2], insulin, age),
                                  Context(exercise, smoking, alcohol, flag, status),
                                  risk, status)
       \/ \E i \in RecommendSweeps, risk \in RiskSweep, status \in StatusValues :
             call = RecommendCall(i.payload, i.context, risk, status)

CallRecommend ==
    /\ call.fn = "generate_personalized_recommendations"
    /\ ~ret.done
    /\ LET lists == recommendation_lists(call.payload, call.context)
       IN  ret' = [done |-> TRUE,
                   recommendations |->
                       generate_personalized_recommendations(call.payload, call.context),
                   critical_issues |-> lists.critical_issues,
                   positive_factors |-> lists.positive_factors,
                   uncut |-> lists.recommendations]
    /\ UNCHANGED <<call, predictor, serving>>

NextRecommend == CallRecommend

SpecRecommend == InitRecommend /\ [][NextRecommend]_vars

----------------------------------------------------------------------------
(* The kinds of message, by the list or statement that issues them.         *)

BandMsgs ==
    {"mgmt_very_high", "mgmt_elevated", "mgmt_moderate", "mgmt_good_control",
     "risk_very_high", "risk_elevated", "risk_moderate"}

CriticalMsgs ==
    {"bmi_below", "bmi_obese", "glucose_very_high", "glucose_elevated", "glucose_hypo",
     "glucose_diabetes_range", "glucose_prediabetes", "hba1c_very_high",
     "hba1c_above_target", "hba1c_diabetes", "hba1c_prediabetes", "bp_hypertension"}

GeneralMetricMsgs ==
    {"bmi_above", "glucose_above_target", "glucose_low", "hba1c_slightly_above",
     "bp_elevated", "insulin_elevated", "insulin_low"}

LifestyleMsgs ==
    {"exercise_increase", "exercise_continue", "smoking_quit", "smoking_former",
     "alcohol_reduce"}

FamilyAgeMsgs == {"family_screening", "age_45", "age_35"}

PositiveMsgs ==
    {"bmi_healthy", "glucose_target", "glucose_excellent", "hba1c_at_target",
     "hba1c_good", "bp_optimal", "insulin_normal", "exercise_keep_up", "smoking_free",
     "alcohol_ok", "family_none"}

ReminderMsgs == {"reminder_glucose_log", "reminder_medication", "reminder_checkups"}

Elems(seq) == {seq[i] : i \in 1 .. Len(seq)}

RecommendDone == call.fn = "generate_personalized_recommendations" /\ ret.done

IsDiagnosed(c) == Normal(c.context.diabetesStatus) \in {"type1", "type2", "gestational", "other"}

\* The summary line of the band a score falls in, "" when the band has none.
BandLine(c) ==
    LET score == c.payload.riskScore
    IN  IF IsDiagnosed(c)
        THEN CASE score >= 7500 -> "mgmt_very_high"
               [] score >= 5000 /\ score < 7500 -> "mgmt_elevated"
               [] score >= 2500 /\ score < 5000 -> "mgmt_moderate"
               [] OTHER -> "mgmt_good_control"
        ELSE CASE score >= 7500 -> "risk_very_high"
               [] score >= 5000 /\ score < 7500 -> "risk_elevated"
               [] score >= 2500 /\ score < 5000 -> "risk_moderate"
               [] OTHER -> ""

----------------------------------------------------------------------------
(* Claims about generate_personalized_recommendations (SpecRecommend).      *)

\* C4: the returned list never has more than 8 entries, and whenever a
\* risk-band condition holds (any score for a diagnosed patient, a score of
\* 25 or more for an at-risk patient) its first entry is that band's summary.
C4_CapAndBandFirst ==
    RecommendDone =>
        /\ Len(ret.recommendations) <= 8
        /\ BandLine(call) # "" =>
              /\ Len(ret.recommendations) >= 1
              /\ ret.recommendations[1] = BandLine(call)

\* C4 witness: a diagnosed patient whose list was cut at 8 (the last reminder
\* is gone) and still opens with the very-high-risk management summary.
C4_Witness ==
    /\ RecommendDone
    /\ IsDiagnosed(call)
    /\ Len(ret.recommendations) = 8
    /\ ret.recommendations[1] = "mgmt_very_high"
    /\ "reminder_checkups" \notin Elems(ret.recommendations)

\* C5 as stated: no general per-metric, lifestyle, family-history, age or
\* positive-factor line precedes a critical-issue message in the returned
\* list: whatever precedes a critical message is the band summary or another
\* critical message.
C5_CriticalFirst ==
    RecommendDone =>
        \A j \in 1 .. Len(ret.recommendations) :
            ret.recommendations[j] \in CriticalMsgs =>
                \A i \in 1 .. (j - 1) :
                    ret.recommendations[i] \in BandMsgs \cup CriticalMsgs

\* C6 as stated: for a diagnosed patient, a returned list that holds a
\* positive-factor message also holds the three fixed management reminders.
C6_RemindersBeforePositive ==
    (RecommendDone /\ IsDiagnosed(call)) =>
        (Elems(ret.recommendations) \cap PositiveMsgs # {} =>
            ReminderMsgs \subseteq Elems(ret.recommendations))

----------------------------------------------------------------------------
(* build_metric_insights: the status it gives each metric, "" for a metric  *)
(* it gives no entry.                                                       *)

\* insight(status, label, value_label, message)
insight(status, label, value_label, message) ==
    [status |-> status, label |-> label, valueLabel |-> value_label,
     message |-> message]

\* f"{value:.<digits>f}<unit>": the text of the value, kept as the number
\* that is formatted, the digits it is rounded to and the unit that follows.
Format(value, digits, unit) == [value |-> value, digits |-> digits, unit |-> unit]

insight_bmi(bmi) ==
    IF 1850 <= bmi /\ bmi <= 2490
    THEN insight("good", "BMI", Format(bmi, 1, ""), "Healthy range")
    ELSE IF bmi < 1850
    THEN insight("warning", "BMI", Format(bmi, 1, ""), "Below healthy range")
    ELSE insight("warning", "BMI", Format(bmi, 1, ""), "Above healthy range")

\* A glucose insight whose normal band includes 100.
insight_glucose_inclusive(glucose) ==
    IF glucose <= 10000
    THEN insight("good", "Glucose", Format(glucose, 0, "mg/dL"), "Normal fasting glucose")
    ELSE IF glucose < 12600
    THEN insight("warning", "Glucose", Format(glucose, 0, "mg/dL"), "Borderline elevation")
    ELSE insight("critical", "Glucose", Format(glucose, 0, "mg/dL"), "Diabetes range")

insight_glucose(glucose) ==
    IF glucose < 10000
    THEN insight("good", "Glucose", Format(glucose, 0, "mg/dL"), "Normal fasting glucose")
    ELSE IF glucose < 12600
    THEN insight("warning", "Glucose", Format(glucose, 0, "mg/dL"), "Borderline elevation")
    ELSE insight("critical", "Glucose", Format(glucose, 0, "mg/dL"), "Diabetes range")

insight_blood_pressure(systolic, diastolic) ==
    LET bp_value == <<Format(systolic, 0, "/"), Format(diastolic, 0, "mmHg")>>
    IN  IF systolic < 12000 /\ diastolic < 8000
        THEN insight("good", "Blood Pressure", bp_value, "Optimal range")
        ELSE IF systolic < 14000 /\ diastolic < 9000
        THEN insight("warning", "Blood Pressure", bp_value, "Elevated")
        ELSE insight("critical", "Blood Pressure", bp_value, "Hypertension range")

insight_hba1c(hba1c) ==
    IF hba1c < 570
    THEN insight("good", "HbA1c", Format(hba1c, 1, "%"), "Normal range")
    ELSE IF hba1c < 650
    THEN insight("warning", "HbA1c", Format(hba1c, 1, "%"), "Prediabetes range")
    ELSE insight("critical", "HbA1c", Format(hba1c, 1, "%"), "Diabetes range")

insight_insulin(insulin) ==
    IF 200 <= insulin /\ insulin <= 2500
    THEN insight("good", "Insulin", Format(insulin, 1, "uU/mL"),
                 "Within typical fasting range")
    ELSE IF insulin < 200
    THEN insight("warning", "Insulin", Format(insulin, 1, "uU/mL"), "Below typical range")
    ELSE insight("warning", "Insulin", Format(insulin, 1, "uU/mL"),
                 "Elevated fasting insulin")

\* An insight builder that asks for one of the two pressure readings only.
insight_keys_either(payload) ==
    {k \in {"bmi", "glucose", "bloodPressure", "hba1c", "insulin"} :
        CASE k = "bloodPressure" ->
                Truthy(payload.systolicBP) \/ Truthy(payload.diastolicBP)
          [] OTHER -> Truthy(payload[k])}

\* The keys build_metric_insights assigns: `if bmi:` and the like.
insight_keys(payload) ==
    {k \in {"bmi", "glucose", "bloodPressure", "hba1c", "insulin"} :
        CASE k = "bloodPressure" ->
                Truthy(payload.systolicBP) /\ Truthy(payload.diastolicBP)
          [] OTHER -> Truthy(payload[k])}

\* The insights dictionary: a function whose domain is the set of keys that
\* were assigned.
build_metric_insights(payload) ==
    [k \in insight_keys(payload) |->
        CASE k = "bmi" -> insight_bmi(payload.bmi)
          [] k = "glucose" -> insight_glucose(payload.glucose)
          [] k = "bloodPressure" ->
                insight_blood_pressure(payload.systolicBP, payload.diastolicBP)
          [] k = "hba1c" -> insight_hba1c(payload.hba1c)
          [] k = "insulin" -> insight_insulin(payload.insulin)]

----------------------------------------------------------------------------
(* The confidence calibration of /predict.                                  *)

\* A calibration that replaces the base confidence instead of raising it.
calibrate_overwrite(base_confidence, healthy_indicators, adjusted_risk_score) ==
    clamp(IF healthy_indicators >= 4 /\ adjusted_risk_score < 2000 THEN 9600
          ELSE IF healthy_indicators >= 2 THEN 9000
          ELSE base_confidence,
          6000, 9950)

\* A calibration without its final clamp.
calibrate_unclamped(base_confidence, healthy_indicators, adjusted_risk_score) ==
    IF healthy_indicators >= 4 /\ adjusted_risk_score < 2000
    THEN Max2(base_confidence, 9600)
    ELSE IF healthy_indicators >= 2 THEN Max2(base_confidence, 9000)
    ELSE base_confidence

calibrate(base_confidence, healthy_indicators, adjusted_risk_score) ==
    clamp(IF healthy_indicators >= 4 /\ adjusted_risk_score < 2000
          THEN Max2(base_confidence, 9600)
          ELSE IF healthy_indicators >= 2 THEN Max2(base_confidence, 9000)
          ELSE base_confidence,
          6000, 9950)

----------------------------------------------------------------------------
(* JSON values of a request body and parse_float.                           *)

JMissing    == [t |-> "missing", n |-> 0, s |-> ""]  \* the key is not in the body
JNull       == [t |-> "null", n |-> 0, s |-> ""]
JNum(n)     == [t |-> "num", n |-> n, s |-> ""]
JStr(s)     == [t |-> "str", n |-> 0, s |-> s]       \* a string that is no number
JNumStr(n)  == [t |-> "numstr", n |-> n, s |-> "#"]  \* a string float() parses
JBool(b)    == [t |-> "bool", n |-> IF b THEN 1 ELSE 0, s |-> ""]
JHuge       == [t |-> "huge", n |-> 0, s |-> ""]     \* an integer beyond the float range

\* data.get(key): None for a missing key.
Get(data, key) == IF data[key].t = "missing" THEN JNull ELSE data[key]

\* Truthiness of a JSON value.
JTruthy(v) ==
    CASE v.t \in {"missing", "null"} -> FALSE
      [] v.t = "num"    -> v.n # 0
      [] v.t = "str"    -> v.s # ""
      [] v.t = "numstr" -> TRUE
      [] v.t = "bool"   -> v.n = 1
      [] v.t = "huge"   -> TRUE

\* a or b
JOr(a, b) == IF JTruthy(a) THEN a ELSE b

\* parse_float: None and "" give 0.0; float(value), with TypeError and
\* ValueError giving 0.0; float() of an integer beyond the float range raises
\* OverflowError, which parse_float does not catch (raised = TRUE).
parse_float(v) ==
    CASE v.t \in {"missing", "null"} -> [raised |-> FALSE, value |-> 0]
      [] v.t = "str"    -> [raised |-> FALSE, value |-> 0]
      [] v.t = "numstr" -> [raised |-> FALSE, value |-> v.n]
      [] v.t = "num"    -> [raised |-> FALSE, value |-> v.n]
      [] v.t = "bool"   -> [raised |-> FALSE, value |-> 100 * v.n]
      [] v.t = "huge"   -> [raised |-> TRUE, value |-> 0]

\* (value or "").lower() raises AttributeError on a truthy value that is no
\* string.
LowerRaises(v) == JTruthy(v) /\ v.t \notin {"str", "numstr"}

\* A context string as the rule engine reads it.
ContextString(v) ==
    IF v.t \in {"str", "numstr"} THEN v.s
    ELSE IF v.t \in {"missing", "null"} THEN NoneStr
    ELSE ""

----------------------------------------------------------------------------
(* The /predict handler.  `data` maps every key the handler reads to its    *)
(* JSON value (JMissing for a key that is not in the body); `p1` is the     *)
(* probability of diabetes the classifier answers with.                     *)

MeasurementKeys ==
    {"age", "bmi", "glucose", "bloodPressure", "insulin", "skinThickness",
     "pregnancies", "familyHistory", "systolicBP", "diastolicBP", "hba1c"}

ContextKeys ==
    {"gender", "exerciseFrequency", "smokingStatus", "alcoholConsumption",
     "familyHistoryFlag", "diabetesStatus"}

Keys == MeasurementKeys \cup ContextKeys

required_fields ==
    <<"age", "bmi", "glucose", "bloodPressure", "insulin", "skinThickness",
      "pregnancies", "familyHistory">>

\* A validation that does not look for familyHistory.
missing_fields_short(data) ==
    SelectSeq(SubSeq(required_fields, 1, 7), LAMBDA f : data[f].t = "missing")

\* [field for field in required_fields if field not in data]
missing_fields(data) == SelectSeq(required_fields, LAMBDA f : data[f].t = "missing")

\* `not data`: the body is empty.
EmptyBody(data) == \A k \in Keys : data[k].t = "missing"

\* context_flags, as the rule engine reads them.
context_flags(data) ==
    Context(ContextString(Get(data, "exerciseFrequency")),
            ContextString(Get(data, "smokingStatus")),
            ContextString(Get(data, "alcoholConsumption")),
            IF JTruthy(Get(data, "familyHistoryFlag")) THEN "True" ELSE "False",
            IF data["diabetesStatus"].t = "missing" THEN "none"
            ELSE ContextString(data["diabetesStatus"]))

\* The values parse_float is called on while patient_data is built.
parsed_values(data) ==
    [systolicBP |-> parse_float(JOr(Get(data, "systolicBP"), Get(data, "bloodPressure"))),
     diastolicBP |-> parse_float(JOr(Get(data, "diastolicBP"), Get(data, "bloodPressure"))),
     hba1c |-> parse_float(Get(data, "hba1c")),
     pregnancies |-> parse_float(Get(data, "pregnancies")),
     glucose |-> parse_float(Get(data, "glucose")),
     bloodPressure |-> parse_float(Get(data, "bloodPressure")),
     skinThickness |-> parse_float(Get(data, "skinThickness")),
     insulin |-> parse_float(Get(data, "insulin")),
     bmi |-> parse_float(Get(data, "bmi")),
     diabetesPedigreeFunction |-> parse_float(Get(data, "familyHistory")),
     age |-> parse_float(Get(data, "age"))]

\* patient_data, as the rule engine reads it (hba1c is None unless positive).
patient_data(data) ==
    LET v == parsed_values(data)
    IN  Payload(v.bmi.value, v.glucose.value,
                IF v.hba1c.value > 0 THEN v.hba1c.value ELSE None,
                v.systolicBP.value, v.diastolicBP.value, v.insulin.value, v.age.value)

\* An exception reaches the handler's `except Exception`: .lower() on a value
\* that is no string (gender in the handler, the lifestyle fields in
\* apply_contextual_adjustments, diabetesStatus in the synthesizer), an
\* OverflowError out of parse_float, or predict_risk on a predictor whose
\* model is not set.
handler_raises(pred, data) ==
    \/ LowerRaises(Get(data, "gender"))
    \/ \E k \in DOMAIN parsed_values(data) : parsed_values(data)[k].raised
    \/ pred = "unloaded"
    \/ LowerRaises(Get(data, "exerciseFrequency"))
    \/ LowerRaises(Get(data, "smokingStatus"))
    \/ LowerRaises(Get(data, "alcoholConsumption"))
    \/ (data["diabetesStatus"].t # "missing" /\ LowerRaises(data["diabetesStatus"]))

\* The stages of an assessment, in the order the handler calls them.
Stages ==
    <<"predict_risk", "apply_contextual_adjustments", "categorize_risk",
      "generate_personalized_recommendations", "build_metric_insights">>

\* The stages that were called when the exception was raised: none for
\* gender.lower() and parse_float, which come first; predict_risk for a
\* predictor whose model is not set; the adjustment for a lifestyle field; the
\* synthesizer for diabetesStatus.
invoked_before_raise(pred, data) ==
    IF \/ LowerRaises(Get(data, "gender"))
       \/ \E k \in DOMAIN parsed_values(data) : parsed_values(data)[k].raised
    THEN {}
    ELSE IF pred = "unloaded" THEN {Stages[1]}
    ELSE IF \/ LowerRaises(Get(data, "exerciseFrequency"))
            \/ LowerRaises(Get(data, "smokingStatus"))
            \/ LowerRaises(Get(data, "alcoholConsumption"))
    THEN {Stages[1], Stages[2]}
    ELSE {Stages[1], Stages[2], Stages[3], Stages[4]}

\* A response that is an error; `invoked` is the set of stages the handler
\* called before it returned.
ErrorResponse(status, error) ==
    [done |-> TRUE, status |-> status, error |-> error, missing |-> << >>,
     invoked |-> {}]

\* predictor.predict_risk: risk score and confidence from the two class
\* probabilities p1 and 100 - p1.
predict_risk(p1) ==
    [riskScore |-> p1, confidenceScore |-> Max2(p1, 10000 - p1),
     prediction |-> IF p1 > 5000 THEN 1 ELSE 0]

predict_diabetes_risk(pred, data, p1) ==
    IF pred = "None" THEN ErrorResponse(500, "Model not loaded")
    ELSE IF EmptyBody(data) THEN ErrorResponse(400, "No data provided")
    ELSE IF missing_fields(data) # << >>
    THEN [ErrorResponse(400, "Missing required fields") EXCEPT
             !.missing = missing_fields(data)]
    ELSE IF handler_raises(pred, data)
    THEN [ErrorResponse(500, "Prediction failed") EXCEPT
             !.invoked = invoked_before_raise(pred, data)]
    ELSE
        LET payload == patient_data(data)
            context == context_flags(data)
            prediction_result == predict_risk(p1)
            adjusted == apply_contextual_adjustments(prediction_result.riskScore,
                                                     payload, context)
        IN  [done |-> TRUE, status |-> 200, error |-> "", missing |-> << >>,
             invoked |-> {Stages[i] : i \in 1 .. Len(Stages)},
             patient_data |-> payload,
             base_score |-> prediction_result.riskScore,
             base_confidence |-> prediction_result.confidenceScore,
             healthy_indicators |-> adjusted.healthy_indicators,
             riskScore |-> adjusted.adjusted_score,
             riskCategory |-> categorize_risk(adjusted.adjusted_score),
             confidenceScore |-> calibrate(prediction_result.confidenceScore,
                                           adjusted.healthy_indicators,
                                           adjusted.adjusted_score),
             prediction |-> prediction_result.prediction,
             recommendations |->
                 generate_personalized_recommendations(
                     WithRisk(payload, adjusted.adjusted_score), context),
             metricInsights |-> build_metric_insights(payload)]

----------------------------------------------------------------------------
(* /health, /model/info and /batch_predict.                                 *)

health_check(pred) ==
    [done |-> TRUE, status |-> 200, error |-> "", missing |-> << >>,
     invoked |-> {}, model_loaded |-> pred # "None"]

\* get_feature_importance raises on a predictor whose model is not set.
model_info(pred) ==
    IF pred = "None" THEN ErrorResponse(500, "Model not loaded")
    ELSE IF pred = "unloaded" THEN ErrorResponse(500, "Failed to get model info")
    ELSE [done |-> TRUE, status |-> 200, error |-> "", missing |-> << >>,
          invoked |-> {}, model_loaded |-> TRUE]

\* predictor['model']: load_model stores an instance of the predictor class,
\* which has no __getitem__, so the subscript raises TypeError.
Subscriptable(pred) == pred = "dict"

\* One entry of the batch: the classifier's own score, categorized and with
\* its confidence clamped, with no contextual adjustment.
batch_item(i, p1) ==
    [patient_id |-> i, error |-> "", riskScore |-> p1,
     riskCategory |-> categorize_risk(p1),
     confidenceScore |-> clamp(Max2(p1, 10000 - p1), 6000, 9950),
     prediction |-> IF p1 > 5000 THEN 1 ELSE 0]

\* A batch handler that looks at the body before it looks at the predictor.
batch_predict_body_first(pred, body, probs) ==
    IF body \in {"empty", "no_patients"}
    THEN ErrorResponse(400, "No patients data provided")
    ELSE IF body = "not_a_list" THEN ErrorResponse(400, "Patients data must be a list")
    ELSE IF pred = "None" THEN ErrorResponse(500, "Model not loaded")
    ELSE ErrorResponse(500, "Batch prediction failed")

\* `body` is "empty", "no_patients", "not_a_list" or "list"; `probs` holds the
\* classifier's answer for each patient of the list.
batch_predict(pred, body, probs) ==
    IF pred = "None" THEN ErrorResponse(500, "Model not loaded")
    ELSE IF body \in {"empty", "no_patients"}
    THEN ErrorResponse(400, "No patients data provided")
    ELSE IF body = "not_a_list" THEN ErrorResponse(400, "Patients data must be a list")
    ELSE IF ~Subscriptable(pred) THEN ErrorResponse(500, "Batch prediction failed")
    ELSE [done |-> TRUE, status |-> 200, error |-> "", missing |-> << >>,
          invoked |-> {},
          predictions |-> [i \in 1 .. Len(probs) |-> batch_item(i - 1, probs[i])],
          total_patients |-> Len(probs),
          successful_predictions |-> Len(probs)]

----------------------------------------------------------------------------
(* Request bodies of /predict: a profile with up to two keys edited.        *)

Body(age, bmi, glucose, bloodPressure, insulin, systolic, diastolic, hba1c,
     exercise, smoking, alcohol, flag, status) ==
    [k \in Keys |->
        CASE k = "age" -> age [] k = "bmi" -> bmi [] k = "glucose" -> glucose
          [] k = "bloodPressure" -> bloodPressure [] k = "insulin" -> insulin
          [] k = "skinThickness" -> JNum(2000) [] k = "pregnancies" -> JNum(0)
          [] k = "familyHistory" -> JNum(20)
          [] k = "systolicBP" -> systolic [] k = "diastolicBP" -> diastolic
          [] k = "hba1c" -> hba1c [] k = "gender" -> JStr("female")
          [] k = "exerciseFrequency" -> exercise [] k = "smokingStatus" -> smoking
          [] k = "alcoholConsumption" -> alcohol [] k = "familyHistoryFlag" -> flag
          [] k = "diabetesStatus" -> status]

\* Scenario A (healthy profile), scenario B (high-risk profile), scenario C
\* (B for a diagnosed patient), and a body with the required keys only.
ScenarioA ==
    Body(JNum(3000), JNum(2200), JNum(8500), JNum(7000), JNum(800), JNum(11000),
         JNum(7000), JNum(520), JStr("moderate"), JStr("never"), JStr("light"),
         JBool(FALSE), JStr("none"))

ScenarioB ==
    Body(JNum(5000), JNum(3300), JNum(15000), JNum(9200), JNum(3000), JNum(14500),
         JNum(9200), JNum(700), JStr("none"), JStr("current"), JMissing,
         JBool(TRUE), JStr("none"))

ScenarioC == [ScenarioB EXCEPT !["diabetesStatus"] = JStr("type2")]

RequiredOnly ==
    [Body(JNum(4000), JNum(2700), JNum(10500), JNum(8000), JNum(0), JMissing, JMissing,
          JMissing, JMissing, JMissing, JMissing, JMissing, JMissing)
        EXCEPT !["gender"] = JMissing]

Profiles == {ScenarioA, ScenarioB, ScenarioC, RequiredOnly}

\* The values one key is edited to.
RawValues ==
    {JMissing, JNull, JNum(0), JNum(2000), JNum(13500), JStr(""), JStr("abc"),
     JStr("heavy"), JStr("Type2"), JNumStr(600), JBool(TRUE), JHuge}

\* A second edit, <<key, value>>; <<"", JNull>> is no edit.
SecondEdits ==
    {<<"", JNull>>, <<"bmi", JMissing>>, <<"familyHistory", JMissing>>,
     <<"glucose", JNull>>, <<"hba1c", JStr("abc")>>, <<"familyHistoryFlag", JBool(TRUE)>>,
     <<"exerciseFrequency", JStr("none")>>}

Edit(data, key, value) == IF key = "" THEN data ELSE [data EXCEPT ![key] = value]

PredictBodies ==
    {[k \in Keys |-> JMissing]}
        \cup { Edit(Edit(b, k, v), e[1], e[2]) :
                 b \in Profiles, k \in Keys, v \in RawValues, e \in SecondEdits }

\* The probabilities of diabetes the classifier answers with.
ProbValues == {0, 10, 500, 2000, 4500, 5000, 6000, 9500, 9990, 10000}

MaxPatients == 2

BatchBodies == {"empty", "no_patients", "not_a_list", "list"}

Requests ==
    {[fn |-> "predict_diabetes_risk", data |-> d] : d \in PredictBodies}
        \cup {[fn |-> "batch_predict", body |-> b, patients |-> n] :
                 b \in BatchBodies, n \in 0 .. MaxPatients}
        \cup {[fn |-> "health_check"], [fn |-> "model_info"]}

NoCall == [fn |-> ""]

----------------------------------------------------------------------------
(* The server (specification Spec).                                         *)

Init == predictor = "None" /\ serving = FALSE /\ call = NoCall /\ ret = NoRet

\* load_model: a model file is found and loaded ("loaded"), no file is found
\* ("missing"), or loading the file raises after the global was assigned a
\* fresh predictor ("error").
load_model(outcome) ==
    [result |-> outcome = "loaded",
     predictor |-> CASE outcome = "loaded" -> "loaded"
                     [] outcome = "error" -> "unloaded"
                     [] OTHER -> "None"]

\* python app.py: app.run only if load_model() returned True.
StartAppMain ==
    /\ ~serving /\ predictor = "None"
    /\ \E outcome \in {"loaded", "missing", "error"} :
          /\ predictor' = load_model(outcome).predictor
          /\ serving' = load_model(outcome).result
    /\ UNCHANGED <<call, ret>>

\* gunicorn main:application, python main.py and quick_start.start_api import
\* app and serve it; none of them calls load_model.
StartWithoutLoad ==
    /\ ~serving /\ predictor = "None"
    /\ serving' = TRUE
    /\ UNCHANGED <<predictor, call, ret>>

Receive ==
    /\ serving /\ call = NoCall
    /\ call' \in Requests
    /\ ret' = NoRet
    /\ UNCHANGED <<predictor, serving>>

HandlePredict ==
    /\ call.fn = "predict_diabetes_risk" /\ ~ret.done
    /\ \E p1 \in ProbValues : ret' = predict_diabetes_risk(predictor, call.data, p1)
    /\ UNCHANGED <<predictor, serving, call>>

HandleBatch ==
    /\ call.fn = "batch_predict" /\ ~ret.done
    /\ \E probs \in [1 .. call.patients -> ProbValues] :
          ret' = batch_predict(predictor, call.body, probs)
    /\ UNCHANGED <<predictor, serving, call>>

HandleHealth ==
    /\ call.fn = "health_check" /\ ~ret.done
    /\ ret' = health_check(predictor)
    /\ UNCHANGED <<predictor, serving, call>>

HandleModelInfo ==
    /\ call.fn = "model_info" /\ ~ret.done
    /\ ret' = model_info(predictor)
    /\ UNCHANGED <<predictor, serving, call>>

\* The response is sent; the handler's locals are gone.
Respond ==
    /\ serving /\ ret.done
    /\ call' = NoCall /\ ret' = NoRet
    /\ UNCHANGED <<predictor, serving>>

Next ==
    \/ StartAppMain
    \/ StartWithoutLoad
    \/ Receive
    \/ HandlePredict
    \/ HandleBatch
    \/ HandleHealth
    \/ HandleModelInfo
    \/ Respond

Spec == Init /\ [][Next]_vars

----------------------------------------------------------------------------
(* Claims about the /predict and /batch_predict responses (Spec).           *)

PredictOk == call.fn = "predict_diabetes_risk" /\ ret.done /\ ret.status = 200

BatchOk == call.fn = "batch_predict" /\ ret.done /\ ret.status = 200

\* C2: every successful /predict response and every successful item of a
\* /batch_predict response has a confidenceScore in [60, 99.5].
C2_ConfidenceInRange ==
    /\ PredictOk => (6000 <= ret.confidenceScore /\ ret.confidenceScore <= 9950)
    /\ BatchOk =>
          \A i \in 1 .. Len(ret.predictions) :
              ret.predictions[i].error = "" =>
                  /\ 6000 <= ret.predictions[i].confidenceScore
                  /\ ret.predictions[i].confidenceScore <= 9950

\* C2 witness: a base confidence of 99.9 with no healthy indicator is
\* answered with 99.5.
C2_Witness ==
    /\ PredictOk
    /\ ret.base_confidence = 9990
    /\ ret.healthy_indicators = 0
    /\ ret.confidenceScore = 9950

\* C10: the calibration only raises the base confidence before the final
\* clamp: at least 96 with 4 or more healthy indicators and an adjusted score
\* below 20, else at least 90 with 2 or more healthy indicators, and always
\* at least min(base confidence, 99.5); scenario A at base probability 20
\* gives 5 or more healthy indicators, a score below 20, category Low and a
\* confidence of 96 or more.
C10_CalibrationRaises ==
    PredictOk =>
        /\ (ret.healthy_indicators >= 4 /\ ret.riskScore < 2000) =>
              ret.confidenceScore >= 9600
        /\ (~(ret.healthy_indicators >= 4 /\ ret.riskScore < 2000)
                /\ ret.healthy_indicators >= 2) => ret.confidenceScore >= 9000
        /\ ret.confidenceScore >= Min2(ret.base_confidence, 9950)
        /\ (call.data = ScenarioA /\ ret.base_score = 2000) =>
              /\ ret.healthy_indicators >= 5
              /\ ret.riskScore < 2000
              /\ ret.riskCategory = "Low"
              /\ ret.confidenceScore >= 9600

\* C10 witness: scenario A at base probability 20 (base confidence 80): seven
\* healthy indicators, score 0, Low, confidence raised to 96.
C10_Witness ==
    /\ PredictOk
    /\ call.data = ScenarioA
    /\ ret.base_score = 2000 /\ ret.base_confidence = 8000
    /\ ret.healthy_indicators = 7
    /\ ret.riskScore = 0
    /\ ret.riskCategory = "Low"
    /\ ret.confidenceScore = 9600

----------------------------------------------------------------------------
(* Claims about the error paths of the handlers (Spec).                     *)

PredictDone == call.fn = "predict_diabetes_risk" /\ ret.done

\* The required keys a body lacks.
Lacking(data) ==
    {k \in {"age", "bmi", "glucose", "bloodPressure", "insulin", "skinThickness",
            "pregnancies", "familyHistory"} : data[k].t = "missing"}

\* C11 as stated: with a predictor set, every /predict body that lacks a
\* required key is answered 400 with an error naming exactly the missing
\* keys, and no stage of the assessment is called.
C11_MissingNamed ==
    (PredictDone /\ predictor # "None" /\ Lacking(call.data) # {}) =>
        /\ ret.status = 400
        /\ ret.error = "Missing required fields"
        /\ Elems(ret.missing) = Lacking(call.data)
        /\ ret.invoked = {}

\* C11 amended: with a predictor set, a /predict body that is not empty and
\* lacks a required key is answered 400 with an error naming exactly the
\* missing keys, each once and in the order of the required list; an empty
\* body is answered 400 "No data provided", naming no key; in both cases no
\* stage of the assessment is called.
C11_MissingRejected ==
    (PredictDone /\ predictor # "None" /\ Lacking(call.data) # {}) =>
        /\ ret.status = 400
        /\ ret.invoked = {}
        /\ IF \A k \in Keys : call.data[k].t = "missing"
           THEN ret.error = "No data provided" /\ ret.missing = << >>
           ELSE /\ ret.error = "Missing required fields"
                /\ Elems(ret.missing) = Lacking(call.data)
                /\ Len(ret.missing) = Cardinality(Lacking(call.data))

\* C11 witness: scenario B without bmi and familyHistory is answered 400
\* naming these two keys.
C11_Witness ==
    /\ PredictDone /\ predictor = "loaded"
    /\ call.data = [ScenarioB EXCEPT !["bmi"] = JMissing,
                                     !["familyHistory"] = JMissing]
    /\ ret.status = 400
    /\ ret.missing = <<"bmi", "familyHistory">>
    /\ ret.invoked = {}

\* C12: while predictor is None, /predict, /batch_predict and /model/info
\* answer 500 whatever the body is, call no stage and return no assessment,
\* and /health reports model_loaded = false.
C12_NoModelNoAssessment ==
    (predictor = "None" /\ ret.done) =>
        /\ call.fn \in {"predict_diabetes_risk", "batch_predict", "model_info"} =>
              /\ ret.status = 500
              /\ ret.error = "Model not loaded"
              /\ ret.invoked = {}
              /\ DOMAIN ret \cap {"riskScore", "riskCategory", "confidenceScore",
                                  "recommendations", "predictions"} = {}
        /\ call.fn = "health_check" => (ret.status = 200 /\ ret.model_loaded = FALSE)

\* C12 witness: the valid body of scenario A is answered 500 while no
\* classifier is loaded.
C12_Witness ==
    /\ predictor = "None" /\ serving
    /\ PredictDone /\ call.data = ScenarioA
    /\ ret.status = 500 /\ ret.error = "Model not loaded"

\* A value that is null, empty or a string float() does not parse.
Malformed(v) == v.t \in {"null", "str"}

\* The lines of the synthesizer that are about one measurement.
MetricMsgs(f) ==
    CASE f = "bmi" -> {"bmi_below", "bmi_obese", "bmi_above", "bmi_healthy"}
      [] f = "glucose" ->
            {"glucose_very_high", "glucose_elevated", "glucose_hypo",
             "glucose_diabetes_range", "glucose_prediabetes", "glucose_above_target",
             "glucose_low", "glucose_target", "glucose_excellent"}
      [] f = "hba1c" ->
            {"hba1c_very_high", "hba1c_above_target", "hba1c_diabetes",
             "hba1c_prediabetes", "hba1c_slightly_above", "hba1c_at_target",
             "hba1c_good", "hba1c_target_reminder"}
      [] f \in {"systolicBP", "diastolicBP"} ->
            {"bp_hypertension", "bp_elevated", "bp_optimal"}
      [] f = "insulin" -> {"insulin_elevated", "insulin_low", "insulin_normal"}
      [] f = "age" -> {"age_45", "age_35"}

\* The key of metricInsights a measurement feeds, "" for age.
InsightKey(f) ==
    CASE f \in {"systolicBP", "diastolicBP"} -> "bloodPressure"
      [] f = "age" -> ""
      [] OTHER -> f

\* The delta of the adjustment table for the band measurement f is in.
FieldDelta(f, payload) ==
    CASE f = "bmi" -> TableBmi(payload.bmi)
      [] f = "glucose" -> TableGlucose(payload.glucose)
      [] f = "hba1c" -> TableHba1c(payload.hba1c)
      [] f \in {"systolicBP", "diastolicBP"} ->
            TableBp(payload.systolicBP, payload.diastolicBP)
      [] OTHER -> 0

\* The response r shows no trace of measurement f: the rule engine read it as
\* absent, no band of the adjustment table fired for it, it has no metric
\* insight and no line of the synthesizer is about it.
NoTrace(f, r) ==
    /\ r.patient_data[f] = (IF f = "hba1c" THEN None ELSE 0)
    /\ FieldDelta(f, r.patient_data) = 0
    /\ InsightKey(f) \notin DOMAIN r.metricInsights
    /\ Elems(r.recommendations) \cap MetricMsgs(f) = {}

\* Another value of the body makes the handler raise: a context field that is
\* truthy and no string, or a number float() cannot hold.
OtherFailure(data) ==
    \/ \E k \in ContextKeys \ {"familyHistoryFlag"} :
           data[k].t \in {"num", "bool", "huge"} /\ JTruthy(data[k])
    \/ \E k \in MeasurementKeys : data[k].t = "huge"

RuleFields == {"bmi", "glucose", "hba1c", "insulin", "systolicBP", "diastolicBP", "age"}

\* C13 as stated: in /predict with a loaded model and every required key
\* present, a measurement whose value is null, empty or no number does not
\* make the request fail and is read as absent (0.0, None for hba1c): no
\* adjustment band, no metric insight and no per-metric recommendation for it.
C13_MalformedAbsent ==
    (PredictDone /\ predictor = "loaded" /\ Lacking(call.data) = {}) =>
        \A f \in RuleFields :
            Malformed(call.data[f]) =>
                /\ ret.status # 200 => OtherFailure(call.data)
                /\ ret.status = 200 => NoTrace(f, ret)

BatchDone == call.fn = "batch_predict" /\ ret.done

\* C14 as stated: with the predictor load_model stores, /batch_predict on a
\* list of N patients answers 200 with exactly N entries, patient_id equal to
\* the index in the list, total_patients = N and successful_predictions = the
\* number of entries without an error.
C14_BatchAnswersList ==
    (BatchDone /\ predictor = "loaded" /\ call.body = "list") =>
        /\ ret.status = 200
        /\ Len(ret.predictions) = call.patients
        /\ \A i \in 1 .. Len(ret.predictions) : ret.predictions[i].patient_id = i - 1
        /\ ret.total_patients = call.patients
        /\ ret.successful_predictions
              = Cardinality({i \in 1 .. Len(ret.predictions) :
                                ret.predictions[i].error = ""})

\* C15 as stated: for the record and the classifier answer of a successful
\* /predict response, the entry /batch_predict gives for the same record has
\* the same riskScore, riskCategory and confidenceScore.
C15_BatchEqualsPredict ==
    PredictOk =>
        LET batch == batch_predict(predictor, "list", <<ret.base_score>>)
        IN  /\ batch.status = 200
            /\ batch.predictions[1].error = ""
            /\ batch.predictions[1].riskScore = ret.riskScore
            /\ batch.predictions[1].riskCategory = ret.riskCategory
            /\ batch.predictions[1].confidenceScore = ret.confidenceScore

----------------------------------------------------------------------------
(* Concurrent requests (specification SpecConcurrent): MaxWorkers threads   *)
(* of the server, each running one handler at a time.  call[w] is the       *)
(* request thread w works on, with the answers the classifier gives for it; *)
(* ret[w] is NoRet before the handler has read the global predictor,        *)
(* Entered after its `predictor is None` test, and then its response.       *)

MaxWorkers == 2

Workers == 1 .. MaxWorkers

Entered == [done |-> FALSE, entered |-> TRUE]

ConcurrentRequests ==
    {[fn |-> "predict_diabetes_risk", data |-> d, p1 |-> p] :
        d \in {ScenarioA, ScenarioC, [ScenarioB EXCEPT !["bmi"] = JMissing],
               [ScenarioA EXCEPT !["exerciseFrequency"] = JNum(2000)]},
        p \in {2000, 6000}}
        \cup {[fn |-> "batch_predict", body |-> "list", probs |-> <<6000>>],
              [fn |-> "batch_predict", body |-> "not_a_list", probs |-> << >>],
              [fn |-> "health_check"], [fn |-> "model_info"]}

\* A /model/info handler that drops the classifier it was asked about.
predictor_after_clearing(fn, pred) == IF fn = "model_info" THEN "None" ELSE pred

\* The global predictor after a handler ran a step: no handler has a
\* `global predictor` statement, so none can assign it, and none calls a
\* method of it that writes.
predictor_after(fn, pred) == pred

\* The response of a handler that runs alone.
Answer(pred, c) ==
    CASE c.fn = "predict_diabetes_risk" -> predict_diabetes_risk(pred, c.data, c.p1)
      [] c.fn = "batch_predict" -> batch_predict(pred, c.body, c.probs)
      [] c.fn = "health_check" -> health_check(pred)
      [] c.fn = "model_info" -> model_info(pred)

\* The rest of a handler after its `predictor is None` test, on the value the
\* global has by then: None has no predict_risk and no get_feature_importance
\* and cannot be subscripted, so the old-format branch raises.
after_test(pred, c) ==
    IF pred # "None" \/ (c.fn = "batch_predict" /\ c.body # "list") THEN Answer(pred, c)
    ELSE ErrorResponse(500,
             CASE c.fn = "predict_diabetes_risk" -> "Prediction failed"
               [] c.fn = "batch_predict" -> "Batch prediction failed"
               [] c.fn = "model_info" -> "Failed to get model info")

InitConcurrent ==
    /\ predictor = "None" /\ serving = FALSE
    /\ call = [w \in Workers |-> NoCall]
    /\ ret = [w \in Workers |-> NoRet]

ReceiveConcurrent(w) ==
    /\ serving /\ call[w] = NoCall
    /\ \E c \in ConcurrentRequests : call' = [call EXCEPT ![w] = c]
    /\ ret' = [ret EXCEPT ![w] = NoRet]
    /\ UNCHANGED <<predictor, serving>>

\* The first statement of a handler: /health answers; the others test
\* `predictor is None`.
TestPredictor(w) ==
    /\ call[w] # NoCall /\ ret[w] = NoRet
    /\ ret' = [ret EXCEPT ![w] =
                  IF call[w].fn = "health_check" \/ predictor = "None"
                  THEN Answer(predictor, call[w])
                  ELSE Entered]
    /\ predictor' = predictor_after(call[w].fn, predictor)
    /\ UNCHANGED <<serving, call>>

\* The rest of the handler, which reads the global again.
Finish(w) ==
    /\ ret[w] = Entered
    /\ ret' = [ret EXCEPT ![w] = after_test(predictor, call[w])]
    /\ predictor' = predictor_after(call[w].fn, predictor)
    /\ UNCHANGED <<serving, call>>

RespondConcurrent(w) ==
    /\ ret[w].done
    /\ call' = [call EXCEPT ![w] = NoCall]
    /\ ret' = [ret EXCEPT ![w] = NoRet]
    /\ UNCHANGED <<predictor, serving>>

NextConcurrent ==
    \/ StartAppMain
    \/ StartWithoutLoad
    \/ \E w \in Workers : ReceiveConcurrent(w)
    \/ \E w \in Workers : TestPredictor(w)
    \/ \E w \in Workers : Finish(w)
    \/ \E w \in Workers : RespondConcurrent(w)

SpecConcurrent == InitConcurrent /\ [][NextConcurrent]_vars

----------------------------------------------------------------------------
(* build_metric_insights (specification SpecInsights): every combination of *)
(* an absent, a good and a bad reading of each metric, and each metric      *)
(* swept over its thresholds against these.                                 *)

BmiReadings == {None, 2200, 3300}
GlucoseReadings == {0, 8500, 15000}
Hba1cReadings == {None, 520, 700}
SystolicReadings == {0, 11000, 14500}
DiastolicReadings == {None, 7000, 9200}
InsulinReadings == {0, 800, 3000}

InsightsCall(bmi, glucose, hba1c, systolic, diastolic, insulin) ==
    [fn |-> "build_metric_insights",
     payload |-> Payload(bmi, glucose, hba1c, systolic, diastolic, insulin, 0)]

InitInsights ==
    /\ NoServer
    /\ ret = NoRet
    /\ \/ \E b \in BmiSweep, g \in GlucoseReadings, h \in Hba1cReadings,
             s \in SystolicReadings, d \in DiastolicReadings, i \in InsulinReadings :
               call = InsightsCall(b, g, h, s, d, i)
       \/ \E b \in BmiReadings, g \in GlucoseSweep, h \in Hba1cReadings,
             s \in SystolicReadings, d \in DiastolicReadings, i \in InsulinReadings :
               call = InsightsCall(b, g, h, s, d, i)
       \/ \E b \in BmiReadings, g \in GlucoseReadings, h \in Hba1cSweep,
             s \in SystolicReadings, d \in DiastolicReadings, i \in InsulinReadings :
               call = InsightsCall(b, g, h, s, d, i)
       \/ \E b \in BmiReadings, g \in GlucoseReadings, h \in Hba1cReadings,
             s \in SystolicSweep, d \in DiastolicSweep, i \in InsulinReadings :
               call = InsightsCall(b, g, h, s, d, i)
       \/ \E b \in BmiReadings, g \in GlucoseReadings, h \in Hba1cReadings,
             s \in SystolicReadings, d \in DiastolicReadings, i \in InsulinSweep :
               call = InsightsCall(b, g, h, s, d, i)

CallInsights ==
    /\ call.fn = "build_metric_insights"
    /\ ~ret.done
    /\ ret' = [done |-> TRUE, insights |-> build_metric_insights(call.payload)]
    /\ UNCHANGED <<call, predictor, serving>>

NextInsights == CallInsights

SpecInsights == InitInsights /\ [][NextInsights]_vars

InsightsDone == call.fn = "build_metric_insights" /\ ret.done

\* C17: build_metric_insights has the key bmi, glucose, hba1c, insulin iff
\* the value of that metric is neither zero nor None, the key bloodPressure
\* iff systolicBP and diastolicBP both are, no other key, and every entry
\* has exactly the fields status, label, valueLabel, message.
C17_InsightsOnlyForPresent ==
    InsightsDone =>
        /\ DOMAIN ret.insights
              = {k \in {"bmi", "glucose", "hba1c", "insulin"} : ~Absent(call.payload[k])}
                  \cup (IF ~Absent(call.payload.systolicBP)
                           /\ ~Absent(call.payload.diastolicBP)
                        THEN {"bloodPressure"} ELSE {})
        /\ \A k \in DOMAIN ret.insights :
              DOMAIN ret.insights[k] = {"status", "label", "valueLabel", "message"}

\* C17 witness: glucose and systolicBP are 0, hba1c is None: the insights are
\* those of bmi and insulin only.
C17_Witness ==
    /\ InsightsDone
    /\ call.payload.glucose = 0 /\ call.payload.hba1c = None
    /\ call.payload.systolicBP = 0 /\ call.payload.diastolicBP = 7000
    /\ DOMAIN ret.insights = {"bmi", "insulin"}

\* The status table of the insights.
StatusOf(k, payload) ==
    CASE k = "bmi" ->
            IF 1850 <= payload.bmi /\ payload.bmi <= 2490 THEN "good" ELSE "warning"
      [] k = "glucose" ->
            IF payload.glucose < 10000 THEN "good"
            ELSE IF payload.glucose >= 12600 THEN "critical" ELSE "warning"
      [] k = "bloodPressure" ->
            IF payload.systolicBP < 12000 /\ payload.diastolicBP < 8000 THEN "good"
            ELSE IF payload.systolicBP < 14000 /\ payload.diastolicBP < 9000
            THEN "warning" ELSE "critical"
      [] k = "hba1c" ->
            IF payload.hba1c < 570 THEN "good"
            ELSE IF payload.hba1c >= 650 THEN "critical" ELSE "warning"
      [] k = "insulin" ->
            IF 200 <= payload.insulin /\ payload.insulin <= 2500 THEN "good"
            ELSE "warning"

\* C18: the status of every entry of the insights is the one the table gives
\* for the value of its own metric, whatever the other metrics are.
C18_InsightStatusTable ==
    InsightsDone =>
        \A k \in DOMAIN ret.insights :
            /\ ret.insights[k].status \in {"good", "warning", "critical"}
            /\ ret.insights[k].status = StatusOf(k, call.payload)

\* C18 witness: a pressure of 139.99/80 is a warning, next to a good BMI of
\* 22 and a critical glucose of 150.
C18_Witness ==
    /\ InsightsDone
    /\ call.payload.bmi = 2200 /\ ret.insights["bmi"].status = "good"
    /\ call.payload.systolicBP = 13999 /\ call.payload.diastolicBP = 8000
    /\ ret.insights["bloodPressure"].status = "warning"
    /\ call.payload.glucose = 15000 /\ ret.insights["glucose"].status = "critical"

----------------------------------------------------------------------------
(* The end-to-end scenarios B and C (Spec).                                 *)

\* The body has the measurements and context of scenario B (bmi 33, glucose
\* 150, hba1c 7.0, pressure 145/92, no exercise, current smoker, family
\* history flagged) and diabetesStatus `status`; the measurements the
\* scenario does not give (insulin) are absent; age and the keys only the
\* classifier reads are free.
IsScenario(data, status) ==
    /\ \A k \in {"bmi", "glucose", "hba1c", "systolicBP", "diastolicBP",
                  "exerciseFrequency", "smokingStatus", "alcoholConsumption",
                  "familyHistoryFlag"} : data[k] = ScenarioB[k]
    /\ data["diabetesStatus"] = JStr(status)
    /\ parse_float(Get(data, "insulin")) = [raised |-> FALSE, value |-> 0]

\* C19: scenario B at base probability 60 gives the adjusted score 100, the
\* category Very High, the very-high-risk line as the first recommendation
\* and a glucose or HbA1c line among the first three.
C19_ScenarioB ==
    (PredictOk /\ IsScenario(call.data, "none") /\ ret.base_score = 6000) =>
        /\ ret.riskScore = 10000
        /\ ret.riskCategory = "Very High"
        /\ ret.recommendations[1] = "risk_very_high"
        /\ \E i \in 1 .. Min2(3, Len(ret.recommendations)) :
              ret.recommendations[i] \in MetricMsgs("glucose") \cup MetricMsgs("hba1c")

\* C19 witness: scenario B with insulin 0 at base probability 60: score 100
\* and the diabetes-range glucose line in third place.
C19_Witness ==
    /\ PredictOk
    /\ call.data = [ScenarioB EXCEPT !["insulin"] = JNum(0)]
    /\ ret.base_score = 6000
    /\ ret.riskScore = 10000 /\ ret.riskCategory = "Very High"
    /\ SubSeq(ret.recommendations, 1, 3)
          = <<"risk_very_high", "bmi_obese", "glucose_diabetes_range">>

\* The lines framed for prevention: the risk-band lines of an at-risk
\* patient, the prediabetes lines, and the screening lines for family history
\* and age.
PreventionMsgs ==
    {"risk_very_high", "risk_elevated", "risk_moderate", "glucose_prediabetes",
     "hba1c_prediabetes", "family_screening", "age_45", "age_35"}

\* C20 as stated: for scenario C (scenario B with diabetesStatus type2) the
\* final list has the medication-adherence line and an HbA1c<7% target line,
\* has no prevention-framed screening line, and has the three fixed
\* reminders whenever fewer than 8 entries precede them.
C20_ScenarioC ==
    (PredictOk /\ IsScenario(call.data, "type2")) =>
        LET final == Elems(ret.recommendations)
            preceding ==
                Cardinality({i \in 1 .. Len(ret.recommendations) :
                    ret.recommendations[i]
                        \notin ReminderMsgs \cup {"hba1c_target_reminder"}})
        IN  /\ "reminder_medication" \in final
            /\ final \cap {"hba1c_target_reminder", "hba1c_slightly_above"} # {}
            /\ final \cap PreventionMsgs = {}
            /\ preceding < 8 => ReminderMsgs \subseteq final

----------------------------------------------------------------------------
(* Claims about the buckets and the band line of the synthesizer            *)
(* (SpecRecommend).                                                         *)

Count(seq, S) == Cardinality({i \in 1 .. Len(seq) : seq[i] \in S})

\* The number of buckets (critical issue, general recommendation, positive
\* factor) metric f was put in; f is "systolicBP" for the blood pressure.
Buckets(f) ==
    Count(ret.critical_issues, MetricMsgs(f))
        + Count(ret.uncut, MetricMsgs(f) \cap GeneralMetricMsgs)
        + Count(ret.positive_factors, MetricMsgs(f))

MetricPresent(f, payload) ==
    IF f = "systolicBP"
    THEN ~Absent(payload.systolicBP) /\ ~Absent(payload.diastolicBP)
    ELSE ~Absent(payload[f])

\* C21: every present metric (BMI, glucose, HbA1c, blood pressure, insulin)
\* is put in exactly one of the three buckets, and an absent metric in none,
\* in both modes and for every value.
C21_OneBucket ==
    RecommendDone =>
        \A f \in {"bmi", "glucose", "hba1c", "systolicBP", "insulin"} :
            Buckets(f) = (IF MetricPresent(f, call.payload) THEN 1 ELSE 0)

\* C21 witness: a diagnosed patient with a BMI of 24.91 (general line) and no
\* insulin reading.
C21_Witness ==
    /\ RecommendDone /\ IsDiagnosed(call)
    /\ call.payload.bmi = 2491 /\ "bmi_above" \in Elems(ret.uncut)
    /\ Absent(call.payload.insulin)
    /\ Buckets("bmi") = 1 /\ Buckets("insulin") = 0

\* C22: the returned list has exactly one risk-band summary line for a
\* diagnosed patient at every score and for an at-risk patient at a score of
\* 25 or more, and none for an at-risk patient below 25; the line is that of
\* the band >= 75, >= 50, >= 25, else, in the message set of the mode.
C22_OneBandLine ==
    RecommendDone =>
        LET score == call.payload.riskScore
            band == IF score >= 7500 THEN 1 ELSE IF score >= 5000 THEN 2
                    ELSE IF score >= 2500 THEN 3 ELSE 4
            management == <<"mgmt_very_high", "mgmt_elevated", "mgmt_moderate",
                            "mgmt_good_control">>
            prevention == <<"risk_very_high", "risk_elevated", "risk_moderate">>
        IN  IF IsDiagnosed(call)
            THEN /\ Count(ret.recommendations, BandMsgs) = 1
                 /\ management[band] \in Elems(ret.recommendations)
            ELSE IF band <= 3
            THEN /\ Count(ret.recommendations, BandMsgs) = 1
                 /\ prevention[band] \in Elems(ret.recommendations)
            ELSE Count(ret.recommendations, BandMsgs) = 0

\* C22 witness: a diagnosed patient at 24.99 gets the maintenance line, in a
\* list that was cut at 8.
C22_Witness ==
    /\ RecommendDone /\ IsDiagnosed(call)
    /\ call.payload.riskScore = 2499
    /\ Len(ret.recommendations) = 8 /\ Len(ret.uncut) > 8
    /\ Count(ret.recommendations, BandMsgs) = 1
    /\ ret.recommendations[1] = "mgmt_good_control"

----------------------------------------------------------------------------
(* Claims about the start of the server (Spec).                             *)

\* C23 as stated: from every entry point, the server accepts and handles a
\* request only after load_model() has returned True, so never while
\* predictor is None.
C23_ServesOnlyLoaded ==
    (serving \/ call # NoCall) => predictor = "loaded"

----------------------------------------------------------------------------
(* The API key gate (specification SpecAuth).  A request carries its        *)
(* X-API-Key header (NoHeader when it has none), its Authorization header   *)
(* as the pair of its first seven characters and the rest, and the value of *)
(* ML_API_KEY in the environment when it arrives (NoHeader when unset).     *)

NoHeader == "<absent>"

\* request.headers.get('Authorization', '')
NoAuthorization == <<"", "">>

\* The gate passes a request (to the handler) or answers it.
Pass == [pass |-> TRUE, status |-> 200, error |-> ""]
Reject(status, error) == [pass |-> FALSE, status |-> status, error |-> error]

\* A gate that takes a matching key from either header.
require_api_key_either(api_key, x_api_key, authorization) ==
    IF api_key = NoHeader \/ api_key = "" THEN Pass
    ELSE IF x_api_key = api_key
            \/ (authorization[1] = "Bearer " /\ authorization[2] = api_key)
    THEN Pass
    ELSE IF (x_api_key = NoHeader \/ x_api_key = "")
            /\ ~(authorization[1] = "Bearer " /\ authorization[2] # "")
    THEN Reject(401, "API key required")
    ELSE Reject(403, "Invalid API key")

\* require_api_key.decorated_function
require_api_key(api_key, x_api_key, authorization) ==
    IF api_key = NoHeader \/ api_key = "" THEN Pass
    ELSE
        LET from_header == x_api_key
            provided_key ==
                IF from_header = NoHeader \/ from_header = ""
                THEN IF authorization[1] = "Bearer " THEN authorization[2]
                     ELSE from_header
                ELSE from_header
        IN  IF provided_key = NoHeader \/ provided_key = ""
            THEN Reject(401, "API key required")
            ELSE IF provided_key # api_key THEN Reject(403, "Invalid API key")
            ELSE Pass

\* The routes as app.py decorates them: /health has no gate.
route(pred, c) ==
    IF c.fn = "health_check" THEN Answer(pred, c)
    ELSE LET gate == require_api_key(c.env, c.x_api_key, c.authorization)
         IN  IF gate.pass THEN Answer(pred, c)
             ELSE ErrorResponse(gate.status, gate.error)

EnvValues == {NoHeader, "", "k1"}

XApiKeyValues == {NoHeader, "", "k1", "k2"}

AuthorizationValues ==
    {NoAuthorization, <<"Bearer ", "k1">>, <<"Bearer ", "k2">>, <<"Bearer ", "">>,
     <<"bearer ", "k1">>, <<"Basic k", "1">>}

AuthRequests ==
    {[fn |-> "predict_diabetes_risk", data |-> ScenarioA, p1 |-> 2000],
     [fn |-> "predict_diabetes_risk", data |-> [k \in Keys |-> JMissing], p1 |-> 2000],
     [fn |-> "batch_predict", body |-> "list", probs |-> <<6000>>],
     [fn |-> "health_check"], [fn |-> "model_info"]}

\* request c with its headers and the environment.
WithHeaders(c, env, x_api_key, authorization) ==
    [k \in DOMAIN c \cup {"env", "x_api_key", "authorization"} |->
        CASE k = "env" -> env
          [] k = "x_api_key" -> x_api_key
          [] k = "authorization" -> authorization
          [] OTHER -> c[k]]

ReceiveAuth ==
    /\ serving /\ call = NoCall
    /\ \E c \in AuthRequests, env \in EnvValues, x \in XApiKeyValues,
          a \in AuthorizationValues : call' = WithHeaders(c, env, x, a)
    /\ ret' = NoRet
    /\ UNCHANGED <<predictor, serving>>

HandleAuth ==
    /\ call # NoCall /\ ~ret.done
    /\ ret' = route(predictor, call)
    /\ UNCHANGED <<predictor, serving, call>>

NextAuth ==
    \/ StartAppMain
    \/ StartWithoutLoad
    \/ ReceiveAuth
    \/ HandleAuth
    \/ Respond

SpecAuth == Init /\ [][NextAuth]_vars

\* A request has been through its route.
AuthDone == call # NoCall /\ ret.done

\* ML_API_KEY holds a key (os.getenv gives a non-empty string).
Configured(c) == c.env # NoHeader /\ c.env # ""

\* The key a request presents: its X-API-Key header if it has one with a
\* value, else its Authorization Bearer token; "" when it presents none.
Presented(c) ==
    IF c.x_api_key # NoHeader /\ c.x_api_key # "" THEN c.x_api_key
    ELSE IF c.authorization[1] = "Bearer " THEN c.authorization[2]
    ELSE ""

Gated == {"predict_diabetes_risk", "batch_predict", "model_info"}

\* C24: with ML_API_KEY configured, a gated route runs its handler only for
\* a request whose X-API-Key, or else Bearer token, equals the key; no key
\* is answered 401 and another key 403; /health, and every route when the
\* key is not configured, is answered by its handler.
C24_KeyGate ==
    AuthDone =>
        IF call.fn \in Gated /\ Configured(call)
        THEN CASE Presented(call) = "" ->
                    ret.status = 401 /\ ret.error = "API key required"
               [] Presented(call) # "" /\ Presented(call) # call.env ->
                    ret.status = 403 /\ ret.error = "Invalid API key"
               [] OTHER -> ret = Answer(predictor, call) /\ ret.status \notin {401, 403}
        ELSE ret = Answer(predictor, call) /\ ret.status \notin {401, 403}

\* A gated request that names the right key only in its Bearer token has
\* been handled, with a key configured.
C24_Witness ==
    /\ AuthDone /\ call.fn = "predict_diabetes_risk" /\ Configured(call)
    /\ call.x_api_key = NoHeader /\ call.authorization = <<"Bearer ", call.env>>
    /\ ret.status = 200

\* C25: the first min(3, n) critical-issue messages, n the number of metrics
\* classified critical, are all in the returned list.
C25_CriticalKept ==
    RecommendDone =>
        \A i \in 1 .. Min2(3, Len(ret.critical_issues)) :
            ret.critical_issues[i] \in Elems(ret.recommendations)

\* Four metrics were critical and the cut to eight removed entries, yet the
\* first three critical messages were returned.
C25_Witness ==
    /\ RecommendDone
    /\ Len(ret.critical_issues) >= 4
    /\ Len(ret.uncut) > 8
    /\ \A i \in 1 .. 3 : ret.critical_issues[i] \in Elems(ret.recommendations)

\* C26: generate_personalized_recommendations returns at least one
\* recommendation, whatever the payload, context, score and mode.
C26_NeverEmpty == RecommendDone => Len(ret.recommendations) >= 1

\* An at-risk patient below every band, with no metric, lifestyle answer,
\* family history or age on record, got the no-family-history line alone.
C26_Witness ==
    /\ RecommendDone
    /\ ~has_diabetes(call.context)
    /\ call.payload.riskScore < 2500
    /\ \A f \in {"bmi", "hba1c", "systolicBP", "diastolicBP", "insulin"} :
           call.payload[f] = None
    /\ call.payload.glucose = 0 /\ call.payload.age = 0
    /\ ret.recommendations = <<"family_none">>

\* The at-risk band lines.
RiskBandMsgs == {"risk_very_high", "risk_elevated", "risk_moderate"}

\* C27 as stated: in a /predict answer for an at-risk patient, a category of
\* Moderate, High or Very High comes with the risk-band line as the first
\* recommendation, and a category of Low with no risk-band line at all.
C27_CategoryMatchesBand ==
    (PredictOk /\ ~has_diabetes(context_flags(call.data))) =>
        /\ ret.riskCategory \in {"Moderate", "High", "Very High"} =>
               /\ ret.recommendations # << >>
               /\ ret.recommendations[1] \in RiskBandMsgs
        /\ ret.riskCategory = "Low" =>
               Elems(ret.recommendations) \cap RiskBandMsgs = {}

\* C28 as stated: the adjustment engine counts an exerciseFrequency value
\* as healthy exactly when the synthesizer treats it as favourable exercise
\* (positive factor or continue-your-routine line), and adds a risk delta
\* for a smokingStatus value exactly when the synthesizer issues the
\* quit-smoking line for it.
C28_LifestyleAgreement ==
    RecommendDone =>
        /\ exercise_adjustment(call.context.exerciseFrequency).healthy = 1
              <=> \/ "exercise_keep_up" \in Elems(ret.positive_factors)
                  \/ "exercise_continue" \in Elems(ret.uncut)
        /\ smoking_adjustment(call.context.smokingStatus).adj > 0
              <=> "smoking_quit" \in Elems(ret.uncut)

\* C29 as stated: for one blood-pressure reading, a positive factor in the
\* synthesizer comes with the insight status good, and a critical issue with
\* the insight status critical.
C29_PressureAgreement ==
    RecommendDone =>
        LET insights == build_metric_insights(call.payload)
        IN  /\ "bp_optimal" \in Elems(ret.positive_factors) =>
                  /\ "bloodPressure" \in DOMAIN insights
                  /\ insights["bloodPressure"].status = "good"
            /\ "bp_hypertension" \in Elems(ret.critical_issues) =>
                  /\ "bloodPressure" \in DOMAIN insights
                  /\ insights["bloodPressure"].status = "critical"

\* A key the request leaves out, sets to null or sets to zero.
Unset(v) == v.t \in {"missing", "null"} \/ (v.t = "num" /\ v.n = 0)

\* C30 as stated: in /predict, with systolicBP and diastolicBP missing, null
\* or zero, blood pressure is absent for the adjustment engine, the insight
\* builder and the synthesizer; the required bloodPressure value is not
\* read as the systolic and the diastolic reading.
C30_PressureAbsent ==
    (PredictOk /\ Unset(call.data["systolicBP"]) /\ Unset(call.data["diastolicBP"])) =>
        /\ ~Truthy(ret.patient_data.systolicBP)
        /\ ~Truthy(ret.patient_data.diastolicBP)
        /\ "bloodPressure" \notin DOMAIN ret.metricInsights
        /\ Elems(ret.recommendations) \cap MetricMsgs("systolicBP") = {}

====
